---- MODULE Spec2Model ----
(***************************************************************************)
(* A model of src/program-verification.tsx: the line-oriented parser, the  *)
(* SSA builder, the variable renamer, the SMT-LIB encoders, the mocked     *)
(* solver interface and the analysis session (the React component state).  *)
(*                                                                         *)
(* Program text is a sequence of lines; a line is a sequence of tokens     *)
(* (keywords, identifiers, numerals, punctuation, operators and the blank  *)
(* " ").  Every character test of the source (includes, startsWith, the    *)
(* regular expressions) is decided on these tokens.  JavaScript values     *)
(* that appear as SSA versions and literal values are records [k, n, d].   *)
(***************************************************************************)
EXTENDS Integers, Sequences, FiniteSets, TLC

VARIABLES
  \* the state of the ProgramVerification component
  mode, program1, program2, unrollDepth,
  ssaForm1, ssaForm2, smtCode, verificationResult, counterexamples,
  validExamples, optimizedSSA1, optimizedSSA2, loading, cfgData,
  \* the inputs changed and the reset effect has not run yet
  effectPending,
  \* the analyses suspended at their await: the closures [mode, smt]
  pending,
  \* the builder applied to one AST: its input, how far it got, its results
  fnAst, fnStage, fnResult, fnRenamed,
  \* the encoder, the optimizer (one entry per pass) and the graph builder
  \* applied to the same AST
  fnSmt, fnPasses, fnCfg

sessionVars ==
  <<mode, program1, program2, unrollDepth, ssaForm1, ssaForm2, smtCode,
    verificationResult, counterexamples, validExamples, optimizedSSA1,
    optimizedSSA2, loading, cfgData, effectPending, pending>>

fnVars == <<fnAst, fnStage, fnResult, fnRenamed, fnSmt, fnPasses, fnCfg>>

vars == <<sessionVars, fnVars>>

(***************************************************************************)
(* JavaScript values                                                       *)
(***************************************************************************)
\* [k, n, d]: a number n/d in lowest terms (k = "num"), +-Infinity (k = "inf",
\* n the sign), NaN, a boolean (k = "bool", n = 1 for true), the string
\* "loop", or undefined.  Numbers are exact: the rounding of doubles and the
\* sign of zero are not modelled.
Num(n) == [k |-> "num", n |-> n, d |-> 1]
NaN == [k |-> "NaN", n |-> 0, d |-> 1]
Inf(sign) == [k |-> "inf", n |-> sign, d |-> 1]
Bool(b) == [k |-> "bool", n |-> IF b THEN 1 ELSE 0, d |-> 1]
LoopStr == [k |-> "loop", n |-> 0, d |-> 1]
Undefined == [k |-> "undefined", n |-> 0, d |-> 1]

\* !v of JavaScript: 0, NaN, false and undefined are falsy, "loop" is not
Falsy(v) == v.k \in {"NaN", "undefined"} \/ (v.k \in {"num", "bool"} /\ v.n = 0)

\* v++ on a version: a number is incremented, "loop" and NaN become NaN
Incr(v) == IF v.k = "num" THEN [v EXCEPT !.n = @ + v.d] ELSE NaN

\* v !== w : NaN differs from everything, itself included
StrictNeq(v, w) == v.k = "NaN" \/ w.k = "NaN" \/ v # w

\* `${v}` inside a template string
JsStr(v) ==
  CASE v.k = "num" -> IF v.d = 1 THEN ToString(v.n)
                      ELSE ToString(v.n) \o "/" \o ToString(v.d)
    [] v.k = "inf" -> IF v.n > 0 THEN "Infinity" ELSE "-Infinity"
    [] v.k = "bool" -> IF v.n = 1 THEN "true" ELSE "false"
    [] v.k = "NaN" -> "NaN"
    [] v.k = "loop" -> "loop"
    [] OTHER -> "undefined"

(***************************************************************************)
(* Token strings                                                           *)
(***************************************************************************)
RECURSIVE JoinToks(_)
JoinToks(ts) == IF ts = << >> THEN "" ELSE Head(ts) \o JoinToks(Tail(ts))

RECURSIVE TrimLeft(_)
TrimLeft(ts) == IF ts # << >> /\ Head(ts) = " " THEN TrimLeft(Tail(ts)) ELSE ts

RECURSIVE TrimRight(_)
TrimRight(ts) ==
  IF ts # << >> /\ ts[Len(ts)] = " " THEN TrimRight(SubSeq(ts, 1, Len(ts) - 1)) ELSE ts

Trim(ts) == TrimRight(TrimLeft(ts))

Includes(ts, tok) == \E i \in 1..Len(ts) : ts[i] = tok

StartsWith(ts, tok) == ts # << >> /\ ts[1] = tok

\* the pieces of ts.split(tok)
RECURSIVE SplitFrom(_, _, _, _)
SplitFrom(ts, tok, i, cur) ==
  IF i > Len(ts) THEN <<cur>>
  ELSE IF ts[i] = tok THEN <<cur>> \o SplitFrom(ts, tok, i + 1, << >>)
  ELSE SplitFrom(ts, tok, i + 1, Append(cur, ts[i]))

Split(ts, tok) == SplitFrom(ts, tok, 1, << >>)

\* s.replace(/;$/, "")
StripSemicolon(ts) ==
  IF ts # << >> /\ ts[Len(ts)] = ";" THEN SubSeq(ts, 1, Len(ts) - 1) ELSE ts

Numerals == {"0", "1", "2", "3", "4", "5"}

NumeralValue(t) ==
  CASE t = "0" -> 0 [] t = "1" -> 1 [] t = "2" -> 2
    [] t = "3" -> 3 [] t = "4" -> 4 [] t = "5" -> 5

(***************************************************************************)
(* Regular expressions, matched as String.prototype.match does: leftmost   *)
(* start, greedy stars with backtracking.                                  *)
(***************************************************************************)
Lit(t) == [t |-> "lit", v |-> t]
Ws == [t |-> "ws*", v |-> ""]       \* \s*
AnyCap == [t |-> "any*", v |-> ""]  \* (.*)
Eoi == [t |-> "eoi", v |-> ""]      \* $
NoMatch == [ok |-> FALSE, caps |-> << >>]

RECURSIVE WsRun(_, _)
WsRun(s, p) == IF p <= Len(s) /\ s[p] = " " THEN 1 + WsRun(s, p + 1) ELSE 0

RECURSIVE MatchAt(_, _, _, _, _), TryStar(_, _, _, _, _, _)
MatchAt(re, k, s, p, caps) ==
  IF k > Len(re) THEN [ok |-> TRUE, caps |-> caps]
  ELSE CASE re[k].t = "lit" ->
              IF p <= Len(s) /\ s[p] = re[k].v
              THEN MatchAt(re, k + 1, s, p + 1, caps) ELSE NoMatch
         [] re[k].t = "eoi" ->
              IF p = Len(s) + 1 THEN MatchAt(re, k + 1, s, p, caps) ELSE NoMatch
         [] re[k].t = "word" ->
              IF p <= Len(s) /\ s[p] \notin {" ", "(", ")", ";"}
              THEN MatchAt(re, k + 1, s, p + 1, Append(caps, s[p])) ELSE NoMatch
         [] re[k].t = "ws*" -> TryStar(re, k, s, p, WsRun(s, p), caps)
         [] re[k].t = "any*" -> TryStar(re, k, s, p, Len(s) + 1 - p, caps)

TryStar(re, k, s, p, n, caps) ==
  IF n < 0 THEN NoMatch
  ELSE LET caps2 == IF re[k].t = "any*"
                    THEN Append(caps, SubSeq(s, p, p + n - 1)) ELSE caps
           r == MatchAt(re, k + 1, s, p + n, caps2)
       IN IF r.ok THEN r ELSE TryStar(re, k, s, p, n - 1, caps)

RECURSIVE MatchFrom(_, _, _)
MatchFrom(re, s, start) ==
  IF start > Len(s) + 1 THEN NoMatch
  ELSE LET r == MatchAt(re, 1, s, start, << >>)
       IN IF r.ok THEN r ELSE MatchFrom(re, s, start + 1)

Match(re, s) == MatchFrom(re, s, 1)

IfRegex == <<Lit("if"), Ws, Lit("("), AnyCap, Lit(")"), Ws, Lit("{")>>
WhileRegex ==
  <<Lit("while"), Ws, Eoi, Eoi, AnyCap, Eoi, Eoi, Ws, Lit("{")>>
ForRegex ==
  <<Lit("for"), Ws, Eoi, Eoi, AnyCap, Lit(";"), AnyCap, Lit(";"), AnyCap,
    Eoi, Eoi, Ws, Lit("{")>>
AssertRegex == <<Lit("assert"), Lit("("), AnyCap, Lit(")"), Lit(";")>>

(***************************************************************************)
(* parseExpression                                                         *)
(***************************************************************************)
operators == <<"==", "!=", "<=", ">=", "<", ">", "+", "-", "*", "/", "%">>

TypeErrorMsg == "Cannot read properties of undefined (reading 'trim')"

Thrown(msg) == [type |-> "Thrown", msg |-> msg]

\* the characters of the class [(.*)] of /(.*)[(.*)]/ that occur as tokens
ArrayRegexHits(ts) == Includes(ts, "(") \/ Includes(ts, ")") \/ Includes(ts, "*")

RECURSIVE parseExpression(_), parseBinary(_, _)
parseExpression(expr) ==
  IF Includes(expr, "[") /\ Includes(expr, "]") /\ ArrayRegexHits(expr)
  THEN Thrown(TypeErrorMsg)  \* match[2] is undefined: match[2].trim() throws
  ELSE parseBinary(expr, 1)

parseBinary(expr, o) ==
  IF o <= Len(operators)
  THEN IF Includes(expr, operators[o])
       THEN LET parts == Split(expr, operators[o])
                l == parseExpression(Trim(parts[1]))
                r == parseExpression(Trim(parts[2]))
            IN IF l.type = "Thrown" THEN l
               ELSE IF r.type = "Thrown" THEN r
               ELSE [type |-> "BinaryOperation", operator |-> operators[o],
                     left |-> l, right |-> r]
       ELSE parseBinary(expr, o + 1)
  ELSE IF expr = << >>
       THEN [type |-> "Literal", value |-> NaN]  \* !isNaN("") and parseInt("") is NaN
  ELSE IF Len(expr) = 1 /\ expr[1] \in Numerals
       THEN [type |-> "Literal", value |-> Num(NumeralValue(expr[1]))]
  ELSE [type |-> "Variable", name |-> JoinToks(expr)]

(***************************************************************************)
(* parseProgram                                                            *)
(***************************************************************************)
ParseOk(body) == [err |-> FALSE, msg |-> "", body |-> body]
ParseErr(msg) == [err |-> TRUE, msg |-> msg, body |-> << >>]

\* the brace-depth scan that collects the lines of a block
RECURSIVE scanBlock(_, _, _, _)
scanBlock(lines, j, depth, acc) ==
  IF j <= Len(lines) /\ depth > 0
  THEN LET currentLine == Trim(lines[j])
           d1 == IF Includes(currentLine, "{") THEN depth + 1 ELSE depth
           d2 == IF Includes(currentLine, "}") THEN d1 - 1 ELSE d1
           acc2 == IF d2 > 0 /\ currentLine # << >>
                   THEN Append(acc, currentLine) ELSE acc
       IN scanBlock(lines, j + 1, d2, acc2)
  ELSE [j |-> j, body |-> acc]

\* the parts of a for header: `name := expr`
parseHeaderAssign(text) ==
  LET parts == Split(text, ":=")
  IN IF Len(parts) < 2 THEN Thrown(TypeErrorMsg)
     ELSE LET r == parseExpression(Trim(parts[2]))
          IN IF r.type = "Thrown" THEN r
             ELSE [type |-> "Assignment", left |-> JoinToks(Trim(parts[1])),
                   right |-> r]

RECURSIVE parseFrom(_, _, _)
parseFrom(lines, i, body) ==
  IF i > Len(lines) THEN ParseOk(body)
  ELSE LET line == Trim(lines[i]) IN
  IF line = << >> \/ StartsWith(line, "//") THEN parseFrom(lines, i + 1, body)
  ELSE IF Includes(line, ":=")
  THEN LET parts == Split(line, ":=")
           right == parseExpression(Trim(StripSemicolon(parts[2])))
       IN IF right.type = "Thrown" THEN ParseErr(right.msg)
          ELSE parseFrom(lines, i + 1,
                 Append(body, [type |-> "Assignment",
                               left |-> JoinToks(Trim(parts[1])),
                               right |-> right]))
  ELSE IF StartsWith(line, "if")
  THEN LET condMatch == Match(IfRegex, line) IN
       IF ~condMatch.ok THEN ParseErr("Invalid if statement: " \o JoinToks(line))
       ELSE LET condition == parseExpression(Trim(condMatch.caps[1]))
                thenScan == scanBlock(lines, i + 1, 1, << >>)
                hasElse == thenScan.j <= Len(lines)
                           /\ StartsWith(Trim(lines[thenScan.j]), "else")
                elseScan == IF hasElse
                            THEN scanBlock(lines, thenScan.j + 2, 1, << >>)
                            ELSE [j |-> thenScan.j, body |-> << >>]
                ifBody == parseFrom(thenScan.body, 1, << >>)
                elseBody == parseFrom(elseScan.body, 1, << >>)
            IN IF condition.type = "Thrown" THEN ParseErr(condition.msg)
               ELSE IF ifBody.err THEN ifBody
               ELSE IF elseBody.err THEN elseBody
               ELSE parseFrom(lines, elseScan.j,
                      Append(body, [type |-> "IfStatement",
                                    condition |-> condition,
                                    ifBody |-> ifBody.body,
                                    elseBody |-> elseBody.body]))
  ELSE IF StartsWith(line, "while")
  THEN LET condMatch == Match(WhileRegex, line) IN
       IF ~condMatch.ok
       THEN ParseErr("Invalid while statement: " \o JoinToks(line))
       ELSE LET condition == parseExpression(Trim(condMatch.caps[1]))
                scan == scanBlock(lines, i + 1, 1, << >>)
                loopBody == parseFrom(scan.body, 1, << >>)
            IN IF condition.type = "Thrown" THEN ParseErr(condition.msg)
               ELSE IF loopBody.err THEN loopBody
               ELSE parseFrom(lines, scan.j,
                      Append(body, [type |-> "WhileLoop",
                                    condition |-> condition,
                                    body |-> loopBody.body]))
  ELSE IF StartsWith(line, "for")
  THEN LET forMatch == Match(ForRegex, line) IN
       IF ~forMatch.ok THEN ParseErr("Invalid for statement: " \o JoinToks(line))
       ELSE LET condition == parseExpression(Trim(forMatch.caps[2]))
                scan == scanBlock(lines, i + 1, 1, << >>)
                initAssign == parseHeaderAssign(Trim(forMatch.caps[1]))
                updateAssign == parseHeaderAssign(Trim(forMatch.caps[3]))
                loopBody == parseFrom(scan.body, 1, << >>)
            IN IF condition.type = "Thrown" THEN ParseErr(condition.msg)
               ELSE IF initAssign.type = "Thrown" THEN ParseErr(initAssign.msg)
               ELSE IF updateAssign.type = "Thrown" THEN ParseErr(updateAssign.msg)
               ELSE IF loopBody.err THEN loopBody
               ELSE parseFrom(lines, scan.j,
                      Append(body, [type |-> "ForLoop", init |-> initAssign,
                                    condition |-> condition,
                                    update |-> updateAssign,
                                    body |-> loopBody.body]))
  ELSE IF StartsWith(line, "assert")
  THEN LET assertMatch == Match(AssertRegex, line) IN
       IF ~assertMatch.ok
       THEN ParseErr("Invalid assert statement: " \o JoinToks(line))
       ELSE LET condition == parseExpression(Trim(assertMatch.caps[1]))
            IN IF condition.type = "Thrown" THEN ParseErr(condition.msg)
               ELSE parseFrom(lines, i + 1,
                      Append(body, [type |-> "Assert", condition |-> condition]))
  ELSE parseFrom(lines, i + 1, body)

\* [err, msg, ast]: the AST, or the exception parseProgram throws
parseProgram(programText) ==
  LET r == parseFrom(programText, 1, << >>)
  IN [err |-> r.err, msg |-> r.msg,
      ast |-> [type |-> "Program", body |-> r.body]]

(***************************************************************************)
(* The program texts of the model                                          *)
(***************************************************************************)
\* useState default of program1: x := 3; if (x < 5) {...} else {...} assert(y > 0);
DefaultProgram1 ==
  << <<"x", " ", ":=", " ", "3", ";">>,
     <<"if", " ", "(", "x", " ", "<", " ", "5", ")", " ", "{">>,
     <<" ", " ", "y", " ", ":=", " ", "x", " ", "+", " ", "1", ";">>,
     <<"}", " ", "else", " ", "{">>,
     <<" ", " ", "y", " ", ":=", " ", "x", " ", "-", " ", "1", ";">>,
     <<"}">>,
     <<"assert", "(", "y", " ", ">", " ", "0", ")", ";">> >>

\* useState default of program2: x := 3; y := x + 1; assert(y > 0);
DefaultProgram2 ==
  << <<"x", " ", ":=", " ", "3", ";">>,
     <<"y", " ", ":=", " ", "x", " ", "+", " ", "1", ";">>,
     <<"assert", "(", "y", " ", ">", " ", "0", ")", ";">> >>

\* if (x < 5 { y := 1; }   (one line, closing parenthesis missing)
MalformedIfLine ==
  << <<"if", " ", "(", "x", " ", "<", " ", "5", " ", "{", " ",
       "y", " ", ":=", " ", "1", ";", " ", "}">> >>

\* while (x < 5) { x := x + 1; }   (well formed)
WhileProgram ==
  << <<"x", " ", ":=", " ", "0", ";">>,
     <<"while", " ", "(", "x", " ", "<", " ", "5", ")", " ", "{">>,
     <<" ", "x", " ", ":=", " ", "x", " ", "+", " ", "1", ";">>,
     <<"}">> >>

\* an if block whose closing brace never appears
UnclosedIf ==
  << <<"x", " ", ":=", " ", "3", ";">>,
     <<"if", " ", "(", "x", " ", "<", " ", "5", ")", " ", "{">>,
     <<" ", "y", " ", ":=", " ", "1", ";">> >>

ProgramYX ==
  << <<"y", " ", ":=", " ", "2", ";">>,
     <<"x", " ", ":=", " ", "1", ";">> >>

ProgramX == << <<"x", " ", ":=", " ", "1", ";">> >>

(***************************************************************************)
(* convertToSSA.  `variables` is a JavaScript object: an insertion-ordered *)
(* list of [name, ver] entries.  The builder state is [ssa, variables, phi]*)
(***************************************************************************)
HasKey(variables, name) == \E i \in 1..Len(variables) : variables[i].name = name

Get(variables, name) ==
  IF HasKey(variables, name)
  THEN variables[CHOOSE i \in 1..Len(variables) : variables[i].name = name].ver
  ELSE Undefined

Put(variables, name, v) ==
  IF HasKey(variables, name)
  THEN [i \in 1..Len(variables) |->
          IF variables[i].name = name THEN [name |-> name, ver |-> v] ELSE variables[i]]
  ELSE Append(variables, [name |-> name, ver |-> v])

Keys(variables) == [i \in 1..Len(variables) |-> variables[i].name]

\* `${varName}_${version}`
SSAName(varName, v) == varName \o "_" \o JsStr(v)

\* [variables, name]: the map after the call and the SSA name returned
createNewVersion(variables, varName) ==
  LET v == IF Falsy(Get(variables, varName)) THEN Num(0) ELSE Incr(Get(variables, varName))
  IN [variables |-> Put(variables, varName, v), name |-> SSAName(varName, v)]

getCurrentVersion(variables, varName) ==
  LET v == Get(variables, varName)
  IN IF Falsy(v) /\ v # Num(0)
     THEN [variables |-> Put(variables, varName, Num(0)), name |-> SSAName(varName, Num(0))]
     ELSE [variables |-> variables, name |-> SSAName(varName, v)]

\* [variables, expr]
RECURSIVE processExpression(_, _)
processExpression(expr, variables) ==
  CASE expr.type = "BinaryOperation" ->
         LET l == processExpression(expr.left, variables)
             r == processExpression(expr.right, l.variables)
         IN [variables |-> r.variables,
             expr |-> [type |-> "BinaryOperation", operator |-> expr.operator,
                       left |-> l.expr, right |-> r.expr]]
    [] expr.type = "UnaryOperation" ->
         LET o == processExpression(expr.operand, variables)
         IN [variables |-> o.variables,
             expr |-> [type |-> "UnaryOperation", operator |-> expr.operator,
                       operand |-> o.expr]]
    [] expr.type = "Variable" ->
         LET c == getCurrentVersion(variables, expr.name)
         IN [variables |-> c.variables, expr |-> [type |-> "Variable", name |-> c.name]]
    [] expr.type = "ArrayAccess" ->
         LET c == getCurrentVersion(variables, expr.array)
             ix == processExpression(expr.index, c.variables)
         IN [variables |-> ix.variables,
             expr |-> [type |-> "ArrayAccess", array |-> c.name, index |-> ix.expr]]
    [] expr.type = "Literal" -> [variables |-> variables, expr |-> expr]

\* a field that the object does not have
UndefinedExpr == [type |-> "undefined"]

\* a phi operand: a JavaScript string holding an SSA name
Str(s) == [str |-> s]

\* the phi nodes after an if/else, one pass over modifiedVars
RECURSIVE ifPhis(_, _, _, _, _)
ifPhis(names, i, afterIfState, condition, st) ==
  IF i > Len(names) THEN st
  ELSE LET varName == names[i]
           hasIf == HasKey(afterIfState, varName)
           hasElse == HasKey(st.variables, varName)
           ifVersion == SSAName(varName, Get(afterIfState, varName))
           elseVersion == SSAName(varName, Get(st.variables, varName))
       IN IF hasIf /\ hasElse /\ ifVersion # elseVersion
          THEN LET nv == createNewVersion(st.variables, varName)
               IN ifPhis(names, i + 1, afterIfState, condition,
                    [st EXCEPT !.variables = nv.variables,
                               !.ssa = Append(@, [type |-> "Phi", result |-> nv.name,
                                                  operands |-> <<Str(ifVersion), Str(elseVersion)>>,
                                                  condition |-> condition])])
          ELSE ifPhis(names, i + 1, afterIfState, condition, st)

\* new Set([...Object.keys(a), ...Object.keys(b)]) in insertion order
UnionKeys(a, b) ==
  Keys(a) \o SelectSeq(Keys(b), LAMBDA n : ~HasKey(a, n))

\* Object.assign(variables, beforeIfState)
RECURSIVE AssignAll(_, _, _)
AssignAll(variables, from, i) ==
  IF i > Len(from) THEN variables
  ELSE AssignAll(Put(variables, from[i].name, from[i].ver), from, i + 1)

\* loop entry: one pending phi per name of beforeLoopState, bound to "loop"
RECURSIVE loopEntryPhis(_, _, _)
loopEntryPhis(names, i, st) ==
  IF i > Len(names) THEN st
  ELSE LET c == getCurrentVersion(st.variables, names[i])
       IN loopEntryPhis(names, i + 1,
            [st EXCEPT !.phi = Append(@, [type |-> "Phi",
                                          result |-> names[i] \o "_loop",
                                          operands |-> <<Str(c.name)>>,
                                          condition |-> UndefinedExpr,
                                          loopVar |-> TRUE]),
                       !.variables = Put(c.variables, names[i], LoopStr)])

\* phiNode.result.split("_")[0], for a result `${varName}_loop`
LoopVarName(result, variables) ==
  CHOOSE n \in {variables[i].name : i \in 1..Len(variables)} : n \o "_loop" = result

\* the pending phis get the version at the end of the body as an operand
RECURSIVE updateLoopPhis(_, _)
updateLoopPhis(i, st) ==
  IF i > Len(st.phi) THEN st
  ELSE IF st.phi[i].loopVar
  THEN LET c == getCurrentVersion(st.variables, LoopVarName(st.phi[i].result, st.variables))
           ops == st.phi[i].operands
           ops2 == IF \E k \in 1..Len(ops) : ops[k] = Str(c.name)
                   THEN ops ELSE Append(ops, Str(c.name))
       IN updateLoopPhis(i + 1,
            [st EXCEPT !.variables = c.variables, !.phi[i].operands = ops2])
  ELSE updateLoopPhis(i + 1, st)

\* the pending phis are appended to the instructions and lose their mark
RECURSIVE emitLoopPhis(_, _)
emitLoopPhis(i, st) ==
  IF i > Len(st.phi) THEN st
  ELSE IF st.phi[i].loopVar
  THEN emitLoopPhis(i + 1,
         [st EXCEPT !.phi[i].loopVar = FALSE,
                    !.ssa = Append(@, [type |-> "Phi", result |-> st.phi[i].result,
                                       operands |-> st.phi[i].operands,
                                       condition |-> st.phi[i].condition])])
  ELSE emitLoopPhis(i + 1, st)

\* exit phis for the names whose version differs from the one before the loop
RECURSIVE loopExitPhis(_, _, _, _, _)
loopExitPhis(names, i, beforeLoopState, condition, st) ==
  IF i > Len(names) THEN st
  ELSE LET varName == names[i] IN
       IF StrictNeq(Get(st.variables, varName), Get(beforeLoopState, varName))
       THEN LET nv == createNewVersion(st.variables, varName)
                first == IF HasKey(beforeLoopState, varName)
                         THEN SSAName(varName, Get(beforeLoopState, varName))
                         ELSE varName \o "_0"
                c == getCurrentVersion(nv.variables, varName)
            IN loopExitPhis(names, i + 1, beforeLoopState, condition,
                 [st EXCEPT !.variables = c.variables,
                            !.ssa = Append(@, [type |-> "Phi", result |-> nv.name,
                                               operands |-> <<Str(first), Str(c.name)>>,
                                               condition |->
                                                 [type |-> "UnaryOperation",
                                                  operator |-> "!",
                                                  operand |-> condition]])])
       ELSE loopExitPhis(names, i + 1, beforeLoopState, condition, st)

\* a for loop whose update is left out of the loop
whileLoopWithoutUpdate(node) ==
  [type |-> "WhileLoop", condition |-> node.condition, body |-> node.body]

\* const whileLoop = {...}: the loop that a for statement is handled as
whileLoop(node) ==
  [type |-> "WhileLoop", condition |-> node.condition,
   body |-> Append(node.body, node.update)]

\* Statements run in order: a guard `v = v` makes TLC compute the state v that
\* a statement leaves before the next statement is entered.
RECURSIVE processNode(_, _), processBody(_, _, _)
processBody(stmts, i, st) ==
  IF i > Len(stmts) THEN st
  ELSE LET next == processNode(stmts[i], st)
       IN CASE next = next -> processBody(stmts, i + 1, next)

processNode(node, st) ==
  CASE node.type = "Program" -> processBody(node.body, 1, st)
    [] node.type = "Assignment" ->
         LET rightValue == processExpression(node.right, st.variables)
             newVar == createNewVersion(rightValue.variables, node.left)
         IN [st EXCEPT !.variables = newVar.variables,
                       !.ssa = Append(@, [type |-> "Assignment", left |-> newVar.name,
                                          right |-> rightValue.expr])]
    [] node.type = "IfStatement" ->
         LET condition == processExpression(node.condition, st.variables)
             beforeIfState == condition.variables
             afterIf == processBody(node.ifBody, 1, [st EXCEPT !.variables = beforeIfState])
             afterIfState == afterIf.variables
             afterElse == processBody(node.elseBody, 1,
                            [afterIf EXCEPT !.variables =
                                              AssignAll(afterIfState, beforeIfState, 1)])
         IN (CASE afterIf = afterIf /\ afterElse = afterElse ->
                    ifPhis(UnionKeys(afterIfState, afterElse.variables), 1,
                           afterIfState, condition.expr, afterElse))
    [] node.type = "WhileLoop" ->
         LET condition == processExpression(node.condition, st.variables)
             beforeLoopState == condition.variables
             entered == loopEntryPhis(Keys(beforeLoopState), 1,
                                      [st EXCEPT !.variables = beforeLoopState])
             afterBody == processBody(node.body, 1, entered)
             emitted == emitLoopPhis(1, updateLoopPhis(1, afterBody))
         IN (CASE entered = entered /\ afterBody = afterBody /\ emitted = emitted ->
                    loopExitPhis(Keys(emitted.variables), 1, beforeLoopState,
                                 condition.expr, emitted))
    [] node.type = "ForLoop" -> processNode(whileLoop(node), processNode(node.init, st))
    [] node.type = "Assert" ->
         LET condition == processExpression(node.condition, st.variables)
         IN [st EXCEPT !.variables = condition.variables,
                       !.ssa = Append(@, [type |-> "Assert",
                                          condition |-> condition.expr])]

\* [ssa, variables]
convertToSSA(ast) ==
  LET st == processNode(ast, [ssa |-> << >>, variables |-> << >>, phi |-> << >>])
  IN [ssa |-> st.ssa, variables |-> st.variables]

(***************************************************************************)
(* renameVariables                                                         *)
(***************************************************************************)
\* { ...s } of a string s: an object of its characters, with no `name`
CharObject(s) == [chars |-> s]

\* suffixes expr.name and descends into left, right and operands only
RECURSIVE renameInExpr(_, _)
renameInExpr(expr, suffix) ==
  CASE expr.type = "Variable" -> [expr EXCEPT !.name = @ \o suffix]
    [] expr.type = "BinaryOperation" ->
         [expr EXCEPT !.left = renameInExpr(@, suffix),
                      !.right = renameInExpr(@, suffix)]
    [] OTHER -> expr  \* UnaryOperation, ArrayAccess, Literal, undefined

renameNode(node, suffix) ==
  CASE node.type = "Assignment" ->
         [node EXCEPT !.left = @ \o suffix, !.right = renameInExpr(@, suffix)]
    [] node.type = "Assert" ->
         [node EXCEPT !.condition = renameInExpr(@, suffix)]
    [] node.type = "Phi" ->
         [node EXCEPT !.condition = renameInExpr(@, suffix),
                      !.operands = [i \in 1..Len(@) |-> CharObject(@[i].str)],
                      !.result = @ \o suffix]

renameVariables(ssa, suffix) == [i \in 1..Len(ssa) |-> renameNode(ssa[i], suffix)]

(***************************************************************************)
(* The SMT-LIB script: a sequence of lines [kind, text, name].  kind is    *)
(* the prefix that startsWith tests, name the declared constant.           *)
(***************************************************************************)
Line(kind, text) == [kind |-> kind, text |-> text, name |-> ""]
SetLogicLine == Line("set-logic", "(set-logic QF_LIA)")
CheckSatLine == Line("check-sat", "(check-sat)")
GetModelLine == Line("get-model", "(get-model)")
DeclareLine(name) ==
  [kind |-> "declare-const", text |-> "(declare-const " \o name \o " Int)",
   name |-> name]
AssertLine(formula) == Line("assert", "(assert " \o formula \o ")")
BlankLine == Line("blank", "")

\* declarations.add(name) on a Set kept in insertion order
AddDecl(decls, name) ==
  IF \E i \in 1..Len(decls) : decls[i] = name THEN decls ELSE Append(decls, name)

\* generateVerificationSMT.processExpression: [decls, text]
RECURSIVE smtExpression(_, _)
smtExpression(expr, decls) ==
  CASE expr.type = "BinaryOperation" ->
         LET l == smtExpression(expr.left, decls)
             r == smtExpression(expr.right, l.decls)
         IN [decls |-> r.decls,
             text |-> "(" \o expr.operator \o " " \o l.text \o " " \o r.text \o ")"]
    [] expr.type = "Variable" ->
         [decls |-> AddDecl(decls, expr.name), text |-> expr.name]
    [] expr.type = "Literal" -> [decls |-> decls, text |-> JsStr(expr.value)]
    [] OTHER -> [decls |-> decls, text |-> "0"]

\* processExpression of a phi operand (a string or a character object,
\* neither has a `type`): the default case
smtOperand(operand) == "0"

UndefinedTypeMsg == "Cannot read properties of undefined (reading 'type')"

\* the loop over the SSA nodes: [err, body, decls, assertions]
RECURSIVE smtNodes(_, _, _)
smtNodes(ssa, i, acc) ==
  IF i > Len(ssa) \/ acc.err THEN acc
  ELSE LET node == ssa[i] IN
       CASE node.type = "Assignment" ->
              LET e == smtExpression(node.right, AddDecl(acc.decls, node.left))
              IN smtNodes(ssa, i + 1,
                   [acc EXCEPT !.decls = e.decls,
                               !.body = Append(@, AssertLine("(= " \o node.left \o " "
                                                             \o e.text \o ")"))])
         [] node.type = "Assert" ->
              LET e == smtExpression(node.condition, acc.decls)
              IN smtNodes(ssa, i + 1,
                   [acc EXCEPT !.decls = e.decls,
                               !.assertions = Append(@, AssertLine(e.text))])
         [] node.type = "Phi" ->
              IF node.condition = UndefinedExpr \/ Len(node.operands) < 2
              THEN [acc EXCEPT !.err = TRUE]
              ELSE LET e == smtExpression(node.condition, acc.decls)
                       trueCase == smtOperand(node.operands[1])
                       falseCase == smtOperand(node.operands[2])
                   IN smtNodes(ssa, i + 1,
                        [acc EXCEPT !.decls = e.decls,
                                    !.body = Append(@,
                                       AssertLine("(= " \o node.result \o " (ite "
                                                  \o e.text \o " " \o trueCase \o " "
                                                  \o falseCase \o "))"))])

\* [err, msg, smt]: the script, or the exception thrown
generateVerificationSMT(ssa, depth) ==
  LET r == smtNodes(ssa, 1, [err |-> FALSE, body |-> << >>, decls |-> << >>,
                             assertions |-> << >>])
  IN IF r.err THEN [err |-> TRUE, msg |-> UndefinedTypeMsg, smt |-> << >>]
     ELSE [err |-> FALSE, msg |-> "",
           smt |-> <<SetLogicLine>> \o r.body
                   \o [i \in 1..Len(r.decls) |-> DeclareLine(r.decls[i])]
                   \o r.assertions \o <<CheckSatLine, GetModelLine>>]

\* the tokens of a script line, for the regular expression of extractDeclarations
LineTokens(line) ==
  IF line.kind = "declare-const"
  THEN <<"(", "declare-const", " ", line.name, " ", "Int", ")">>
  ELSE <<line.text>>

\* (\w+): one word
WordCap == [t |-> "word", v |-> ""]
DeclRegex ==
  <<Eoi, Eoi, Lit("declare-const"), Lit(" "), WordCap, Lit(" "), WordCap, Eoi, Eoi>>

declarationOf(match) == [name |-> match.caps[1], type |-> match.caps[2]]

RECURSIVE declarationsFrom(_, _)
declarationsFrom(smt, i) ==
  IF i > Len(smt) THEN << >>
  ELSE (IF Match(DeclRegex, LineTokens(smt[i])).ok
        THEN <<declarationOf(Match(DeclRegex, LineTokens(smt[i])))>> ELSE << >>)
       \o declarationsFrom(smt, i + 1)

extractDeclarations(smt) == declarationsFrom(smt, 1)

\* the lines that start with "(assert", joined and followed by a newline
extractAssertions(smt) ==
  LET hits == SelectSeq(smt, LAMBDA line : line.kind = "assert")
  IN IF hits = << >> THEN <<BlankLine>> ELSE hits

\* Object.values(lastAssignments): the distinct assignment targets, in the
\* order in which each first occurs
RECURSIVE outputsFrom(_, _, _)
outputsFrom(ssa, i, acc) ==
  IF i > Len(ssa) THEN acc
  ELSE outputsFrom(ssa, i + 1,
         IF ssa[i].type = "Assignment" THEN AddDecl(acc, ssa[i].left) ELSE acc)

findOutputVariables(ssa) == outputsFrom(ssa, 1, << >>)

\* the lines added after both programs' assertions
equivalenceChecks(outputs1, outputs2) ==
  IF Len(outputs1) = Len(outputs2)
  THEN [i \in 1..Len(outputs1) |->
          AssertLine("(= " \o outputs1[i] \o " " \o outputs2[i] \o ")")]
  ELSE <<Line("assert", "(assert false) ; Output count mismatch")>>

\* the declare-const lines of the combined declarations
declarationLines(combinedDeclarations) ==
  [i \in 1..Len(combinedDeclarations) |->
     [kind |-> "declare-const",
      text |-> "(declare-const " \o combinedDeclarations[i].name
               \o " " \o combinedDeclarations[i].type \o ")",
      name |-> combinedDeclarations[i].name]]

\* generateEquivalenceSMT once smt1 and smt2 are generated
combineSMT(ssa1, renamedSSA2, smt1, smt2) ==
  IF smt1.err THEN smt1
  ELSE IF smt2.err THEN smt2
  ELSE [err |-> FALSE, msg |-> "",
        smt |-> <<SetLogicLine>>
                \o declarationLines(extractDeclarations(smt1.smt)
                                    \o extractDeclarations(smt2.smt))
                \o extractAssertions(smt1.smt) \o extractAssertions(smt2.smt)
                \o equivalenceChecks(findOutputVariables(ssa1),
                                     findOutputVariables(renamedSSA2))
                \o <<CheckSatLine, GetModelLine>>]

\* generateEquivalenceSMT once the second program is renamed
encodeBoth(ssa1, renamedSSA2, depth) ==
  combineSMT(ssa1, renamedSSA2, generateVerificationSMT(ssa1, depth),
             generateVerificationSMT(renamedSSA2, depth))

generateEquivalenceSMT(ssa1, ssa2, depth) ==
  encodeBoth(ssa1, renameVariables(ssa2, "_p2"), depth)

(***************************************************************************)
(* formatSSA, formatSMT                                                    *)
(***************************************************************************)
\* JSON.stringify of a number-valued field
JsonValue(v) == IF v.k \in {"NaN", "inf"} THEN "null" ELSE JsStr(v)

RECURSIVE JsonExpr(_)
JsonExpr(expr) ==
  CASE expr.type = "BinaryOperation" ->
         "{\"type\":\"BinaryOperation\",\"operator\":\"" \o expr.operator
         \o "\",\"left\":" \o JsonExpr(expr.left)
         \o ",\"right\":" \o JsonExpr(expr.right) \o "}"
    [] expr.type = "UnaryOperation" ->
         "{\"type\":\"UnaryOperation\",\"operator\":\"" \o expr.operator
         \o "\",\"operand\":" \o JsonExpr(expr.operand) \o "}"
    [] expr.type = "ArrayAccess" ->
         "{\"type\":\"ArrayAccess\",\"array\":\"" \o expr.array
         \o "\",\"index\":" \o JsonExpr(expr.index) \o "}"
    [] expr.type = "Variable" ->
         "{\"type\":\"Variable\",\"name\":\"" \o expr.name \o "\"}"
    [] expr.type = "Literal" ->
         "{\"type\":\"Literal\",\"value\":" \o JsonValue(expr.value) \o "}"

RECURSIVE formatSSAExpression(_)
formatSSAExpression(expr) ==
  CASE expr.type = "undefined" -> ""
    [] expr.type = "BinaryOperation" ->
         "(" \o formatSSAExpression(expr.left) \o " " \o expr.operator \o " "
         \o formatSSAExpression(expr.right) \o ")"
    [] expr.type = "Variable" -> expr.name
    [] expr.type = "Literal" -> JsStr(expr.value)
    [] OTHER -> JsonExpr(expr)

\* operands.join(", ")
RECURSIVE JoinOperands(_, _)
JoinOperands(ops, i) ==
  IF i > Len(ops) THEN ""
  ELSE ops[i].str \o (IF i < Len(ops) THEN ", " ELSE "") \o JoinOperands(ops, i + 1)

formatSSANode(node) ==
  CASE node.type = "Assignment" ->
         node.left \o " = " \o formatSSAExpression(node.right)
    [] node.type = "Assert" ->
         "assert(" \o formatSSAExpression(node.condition) \o ")"
    [] node.type = "Phi" ->
         node.result \o " = phi(" \o JoinOperands(node.operands, 1) \o ") ["
         \o formatSSAExpression(node.condition) \o "]"

\* the lines of the text; the text is "" exactly when there is no line
formatSSA(ssa) == [i \in 1..Len(ssa) |-> formatSSANode(ssa[i])]

\* smt ends with a newline: split gives its lines and a last empty one
formatSMT(smt) ==
  [i \in 1..Len(smt) |->
     IF smt[i].kind \in {"declare-const", "assert"}
     THEN [smt[i] EXCEPT !.text = "  " \o @] ELSE smt[i]] \o <<BlankLine>>

(***************************************************************************)
(* optimizeSSA                                                             *)
(***************************************************************************)
RECURSIVE GCD(_, _)
GCD(a, b) == IF b = 0 THEN a ELSE GCD(b, a % b)

Abs(n) == IF n < 0 THEN -n ELSE n

Sign(n) == IF n > 0 THEN 1 ELSE IF n < 0 THEN -1 ELSE 0

\* the number n/d, d # 0, in lowest terms
Ratio(n, d) ==
  LET g == GCD(Abs(n), Abs(d))
  IN [k |-> "num", n |-> Sign(d) * (n \div g), d |-> Abs(d) \div g]

\* Math.trunc(n/d) for d > 0
Trunc(n, d) == IF n >= 0 THEN n \div d ELSE -((-n) \div d)

\* ToNumber of a literal value
ToNumber(v) == IF v.k = "bool" THEN Num(v.n) ELSE v

jsAdd(a, b) ==
  IF a.k = "inf" /\ b.k = "inf" THEN (IF a.n = b.n THEN a ELSE NaN)
  ELSE IF a.k = "inf" THEN a
  ELSE IF b.k = "inf" THEN b
  ELSE Ratio(a.n * b.d + b.n * a.d, a.d * b.d)

jsNeg(a) == [a EXCEPT !.n = -@]

jsMul(a, b) ==
  IF a.k = "inf" \/ b.k = "inf"
  THEN (IF a.n = 0 \/ b.n = 0 THEN NaN ELSE Inf(Sign(a.n) * Sign(b.n)))
  ELSE Ratio(a.n * b.n, a.d * b.d)

jsDiv(a, b) ==
  IF a.k = "inf" /\ b.k = "inf" THEN NaN
  ELSE IF a.k = "inf" THEN Inf(IF b.n < 0 THEN -a.n ELSE a.n)
  ELSE IF b.k = "inf" THEN Num(0)
  ELSE IF b.n = 0 THEN (IF a.n = 0 THEN NaN ELSE Inf(Sign(a.n)))
  ELSE Ratio(a.n * b.d, a.d * b.n)

jsMod(a, b) ==
  IF a.k = "inf" THEN NaN
  ELSE IF b.k = "inf" THEN a
  ELSE IF b.n = 0 THEN NaN
  ELSE LET q == Ratio(a.n * b.d, a.d * b.n)
       IN jsAdd(a, jsNeg(jsMul(b, Num(Trunc(q.n, q.d)))))

jsLess(a, b) ==
  IF a.k = "inf" /\ b.k = "inf" THEN a.n < b.n
  ELSE IF a.k = "inf" THEN a.n < 0
  ELSE IF b.k = "inf" THEN b.n > 0
  ELSE a.n * b.d < b.n * a.d

\* eval(`${l} ${operator} ${r}`) on two literal values
jsEval(operator, l, r) ==
  LET a == ToNumber(l)
      b == ToNumber(r)
      nan == a.k = "NaN" \/ b.k = "NaN"
  IN CASE operator = "==" -> Bool(~nan /\ a = b)
       [] operator = "!=" -> Bool(nan \/ a # b)
       [] operator = "<=" -> Bool(~nan /\ (jsLess(a, b) \/ a = b))
       [] operator = ">=" -> Bool(~nan /\ (jsLess(b, a) \/ a = b))
       [] operator = "<" -> Bool(~nan /\ jsLess(a, b))
       [] operator = ">" -> Bool(~nan /\ jsLess(b, a))
       [] operator = "+" -> IF nan THEN NaN ELSE jsAdd(a, b)
       [] operator = "-" -> IF nan THEN NaN ELSE jsAdd(a, jsNeg(b))
       [] operator = "*" -> IF nan THEN NaN ELSE jsMul(a, b)
       [] operator = "/" -> IF nan THEN NaN ELSE jsDiv(a, b)
       [] operator = "%" -> IF nan THEN NaN ELSE jsMod(a, b)

\* first pass: constants[node.left] = node.right.value for literal assignments
RECURSIVE findConstants(_, _, _)
findConstants(ssa, i, constants) ==
  IF i > Len(ssa) THEN constants
  ELSE findConstants(ssa, i + 1,
         IF ssa[i].type = "Assignment" /\ ssa[i].right.type = "Literal"
         THEN Put(constants, ssa[i].left, ssa[i].right.value) ELSE constants)

Bump(useCounts, name) ==
  Put(useCounts, name,
      IF HasKey(useCounts, name) THEN Incr(Get(useCounts, name)) ELSE Num(1))

RECURSIVE countUses(_, _)
countUses(expr, useCounts) ==
  CASE expr.type = "Variable" -> Bump(useCounts, expr.name)
    [] expr.type = "BinaryOperation" ->
         countUses(expr.right, countUses(expr.left, useCounts))
    [] expr.type = "ArrayAccess" ->
         countUses(expr.index, Bump(useCounts, expr.array))
    [] OTHER -> useCounts

RECURSIVE countOperands(_, _, _)
countOperands(ops, i, useCounts) ==
  IF i > Len(ops) THEN useCounts
  ELSE countOperands(ops, i + 1, Bump(useCounts, ops[i].str))

\* first pass: node.right of assignments (an Assert has no `right`) and the
\* operands of phis
RECURSIVE findUseCounts(_, _, _)
findUseCounts(ssa, i, useCounts) ==
  IF i > Len(ssa) THEN useCounts
  ELSE findUseCounts(ssa, i + 1,
         CASE ssa[i].type = "Assignment" -> countUses(ssa[i].right, useCounts)
           [] ssa[i].type = "Phi" -> countOperands(ssa[i].operands, 1, useCounts)
           [] OTHER -> useCounts)

RECURSIVE propagateConstants(_, _)
propagateConstants(expr, constants) ==
  CASE expr.type = "Variable" /\ HasKey(constants, expr.name) ->
         [type |-> "Literal", value |-> Get(constants, expr.name)]
    [] expr.type = "BinaryOperation" ->
         LET left == propagateConstants(expr.left, constants)
             right == propagateConstants(expr.right, constants)
         IN IF left.type = "Literal" /\ right.type = "Literal"
            THEN [type |-> "Literal",
                  value |-> jsEval(expr.operator, left.value, right.value)]
            ELSE [expr EXCEPT !.left = left, !.right = right]
    [] OTHER -> expr

optimizeNode(node, constants) ==
  CASE node.type = "Assignment" ->
         [node EXCEPT !.right = propagateConstants(@, constants)]
    [] node.type = "Assert" ->
         [node EXCEPT !.condition = propagateConstants(@, constants)]
    [] node.type = "Phi" ->
         [node EXCEPT !.condition = propagateConstants(@, constants)]

\* second pass: an assignment is skipped when useCounts[node.left] === 0
RECURSIVE optimizePass(_, _, _, _)
optimizePass(ssa, i, constants, useCounts) ==
  IF i > Len(ssa) THEN << >>
  ELSE IF ssa[i].type = "Assignment" /\ Get(useCounts, ssa[i].left) = Num(0)
  THEN optimizePass(ssa, i + 1, constants, useCounts)
  ELSE <<optimizeNode(ssa[i], constants)>>
       \o optimizePass(ssa, i + 1, constants, useCounts)

optimizeSSA(ssaNodes) ==
  optimizePass(ssaNodes, 1, findConstants(ssaNodes, 1, << >>),
               findUseCounts(ssaNodes, 1, << >>))

(***************************************************************************)
(* generateCFG.  The builder state is [nodes, edges, nodeId]; NoParent is  *)
(* the null parentId, "" the label of an edge without one.                 *)
(***************************************************************************)
NoParent == -1

RECURSIVE formatExpression(_)
formatExpression(expr) ==
  CASE expr.type = "BinaryOperation" ->
         formatExpression(expr.left) \o " " \o expr.operator \o " "
         \o formatExpression(expr.right)
    [] expr.type = "Variable" -> expr.name
    [] expr.type = "Literal" -> JsStr(expr.value)
    [] OTHER -> expr.type

\* nodes.push with the counter read after its increment
CfgNodePreIncrement(id, label) == [id |-> id + 1, label |-> label]

CfgNode(id, label) == [id |-> id, label |-> label]
CfgEdge(from, to, label) == [from |-> from, to |-> to, label |-> label]

\* nodes.push and the edge from the parent, when there is one
cfgEnter(g, id, label, parentId) ==
  [g EXCEPT !.nodes = Append(@, CfgNode(id, label)),
            !.edges = IF parentId # NoParent
                      THEN Append(@, CfgEdge(parentId, id, "")) ELSE @]

RECURSIVE cfgProcessNode(_, _, _), cfgChildren(_, _, _, _)
cfgChildren(stmts, i, parentId, g) ==
  IF i > Len(stmts) THEN g
  ELSE LET next == cfgProcessNode(stmts[i], parentId, g)
       IN CASE next = next -> cfgChildren(stmts, i + 1, parentId, next)

cfgProcessNode(node, parentId, g0) ==
  LET currentNodeId == g0.nodeId
      g == [g0 EXCEPT !.nodeId = @ + 1]
  IN CASE node.type = "Program" ->
            cfgChildren(node.body, 1, currentNodeId,
                        [g EXCEPT !.nodes = Append(@, CfgNode(currentNodeId,
                                                              "Program Start"))])
       [] node.type = "Assignment" ->
            cfgEnter(g, currentNodeId,
                     node.left \o " := " \o formatExpression(node.right), parentId)
       [] node.type = "IfStatement" ->
            LET g1 == cfgEnter(g, currentNodeId,
                               "If (" \o formatExpression(node.condition) \o ")",
                               parentId)
                trueBranchId == g1.nodeId
                g2 == [g1 EXCEPT !.nodeId = @ + 1,
                                 !.nodes = Append(@, CfgNode(trueBranchId, "Then")),
                                 !.edges = Append(@, CfgEdge(currentNodeId,
                                                             trueBranchId, "T"))]
                g3 == cfgChildren(node.ifBody, 1, trueBranchId, g2)
                falseBranchId == g3.nodeId
                g4 == [g3 EXCEPT !.nodeId = @ + 1,
                                 !.nodes = Append(@, CfgNode(falseBranchId, "Else")),
                                 !.edges = Append(@, CfgEdge(currentNodeId,
                                                             falseBranchId, "F"))]
            IN (CASE g3 = g3 -> cfgChildren(node.elseBody, 1, falseBranchId, g4))
       [] node.type = "WhileLoop" ->
            LET g1 == cfgEnter(g, currentNodeId,
                               "While (" \o formatExpression(node.condition) \o ")",
                               parentId)
                loopBodyId == g1.nodeId
                g2 == [g1 EXCEPT !.nodeId = @ + 1,
                                 !.nodes = Append(@, CfgNode(loopBodyId, "Loop Body")),
                                 !.edges = Append(@, CfgEdge(currentNodeId,
                                                             loopBodyId, "T"))]
                g3 == cfgChildren(node.body, 1, loopBodyId, g2)
            IN (CASE g3 = g3 ->
                       [g3 EXCEPT !.edges = Append(@, CfgEdge(loopBodyId,
                                                              currentNodeId, ""))])
       [] node.type = "Assert" ->
            cfgEnter(g, currentNodeId,
                     "Assert (" \o formatExpression(node.condition) \o ")", parentId)
       [] OTHER -> cfgEnter(g, currentNodeId, node.type, parentId)

generateCFG(ast) ==
  LET g == cfgProcessNode(ast, NoParent, [nodes |-> << >>, edges |-> << >>, nodeId |-> 0])
  IN [nodes |-> g.nodes, edges |-> g.edges]

(***************************************************************************)
(* The solver interface (checkVerification, checkEquivalence)              *)
(***************************************************************************)
\* the largest value the model lets the mocked model draw (the source draws 0..9)
MaxMockValue == 1

\* names made of several tokens, the first of which is their \w+ prefix
OddNames ==
  { <<"if", " ", "(", "x", " ", "<", " ", "5", " ", "{", " ", "y">>,
    <<"1", ";", " ", "}">> }

\* match[1] of /\(declare-const (\w+)/ on the declaration of `name`
DeclWord(name) ==
  IF \E ts \in OddNames : \E sfx \in {"", "_p2"} :
       name = SSAName(JoinToks(ts), Num(0)) \o sfx
  THEN (CHOOSE ts \in OddNames : \E sfx \in {"", "_p2"} :
          name = SSAName(JoinToks(ts), Num(0)) \o sfx)[1]
  ELSE name

\* the words of the lines that start with "(declare-const", as object keys
RECURSIVE declKeys(_, _, _)
declKeys(smt, i, acc) ==
  IF i > Len(smt) THEN acc
  ELSE declKeys(smt, i + 1,
         IF smt[i].kind = "declare-const" THEN AddDecl(acc, DeclWord(smt[i].name))
         ELSE acc)

\* every assignment the mocked model can produce for the keys
Assignments(keys) ==
  { [i \in 1..Len(keys) |-> [name |-> keys[i], value |-> f[i]]] :
      f \in [1..Len(keys) -> 0..MaxMockValue] }

Example(assignments) == [error |-> "", assignments |-> assignments]
ErrorExample(msg) == [error |-> msg, assignments |-> << >>]

\* what checkVerification can return for solver answer `answer`
checkVerification(smt, answer) ==
  IF answer = "sat"
  THEN { [verdict |-> "false", counterexamples |-> <<Example(a)>>,
          validExamples |-> << >>] : a \in Assignments(declKeys(smt, 1, << >>)) }
  ELSE { [verdict |-> "true", counterexamples |-> << >>, validExamples |-> << >>] }

checkEquivalence(smt, answer) ==
  IF answer = "unsat"
  THEN { [verdict |-> "true", counterexamples |-> << >>, validExamples |-> << >>] }
  ELSE { [verdict |-> "false", counterexamples |-> <<Example(a)>>,
          validExamples |-> << >>] : a \in Assignments(declKeys(smt, 1, << >>)) }

\* the catch block of both: the solver call threw
solverFailure(msg) ==
  [verdict |-> "false", counterexamples |-> <<ErrorExample(msg)>>,
   validExamples |-> << >>]

(***************************************************************************)
(* The analysis session                                                    *)
(***************************************************************************)
\* the texts typed into the two textareas
Programs ==
  { DefaultProgram1, DefaultProgram2, MalformedIfLine, WhileProgram,
    UnclosedIf, ProgramYX, ProgramX }

\* useState(3)
DefaultUnrollDepth == 3

\* the largest depth typed into the field
MaxUnrollDepth == 4

UnrollDepths == DefaultUnrollDepth..MaxUnrollDepth

NullCfg == [null |-> TRUE]

\* no AST, no SSA result: the value null
NullAst == [type |-> "null"]
NullParse == [err |-> FALSE, msg |-> "", ast |-> NullAst]
NullSSA == [ssa |-> << >>, variables |-> << >>]
NullSmt == [err |-> FALSE, msg |-> "", smt |-> << >>]

FnIdle ==
  /\ fnAst = [type |-> "Program", body |-> << >>]
  /\ fnStage = "idle"
  /\ fnResult = NullSSA
  /\ fnRenamed = << >>
  /\ fnSmt = NullSmt
  /\ fnPasses = << >>
  /\ fnCfg = NullCfg

Init ==
  /\ mode = "verification"
  /\ program1 = DefaultProgram1
  /\ program2 = DefaultProgram2
  /\ unrollDepth = DefaultUnrollDepth
  /\ ssaForm1 = << >>
  /\ ssaForm2 = << >>
  /\ smtCode = << >>
  /\ verificationResult = "null"
  /\ counterexamples = << >>
  /\ validExamples = << >>
  /\ optimizedSSA1 = << >>
  /\ optimizedSSA2 = << >>
  /\ loading = FALSE
  /\ cfgData = NullCfg
  /\ effectPending = FALSE
  /\ pending = << >>
  /\ FnIdle

\* the catch block of analyzePrograms, then setLoading(false)
AnalyzeThrows(msg) ==
  /\ verificationResult' = "false"
  /\ counterexamples' = <<ErrorExample(msg)>>
  /\ loading' = FALSE
  /\ UNCHANGED <<validExamples, pending>>

\* analyzePrograms from setSmtCode to the await of the solver call
AnalyzeEncoded(smt) ==
  IF smt.err
  THEN /\ AnalyzeThrows(smt.msg)
       /\ UNCHANGED smtCode
  ELSE /\ smtCode' = formatSMT(smt.smt)
       /\ loading' = TRUE
       /\ pending' = Append(pending, [mode |-> mode, smt |-> smt.smt])
       /\ UNCHANGED <<verificationResult, counterexamples, validExamples>>

\* analyzePrograms from setSsaForm1 on, both SSA results being computed
AnalyzeConverted(ast1, ast2, ssaResult1, ssaResult2) ==
  /\ ssaForm1' = formatSSA(ssaResult1.ssa)
  /\ optimizedSSA1' = formatSSA(optimizeSSA(ssaResult1.ssa))
  /\ IF ast2 # NullAst
     THEN /\ ssaForm2' = formatSSA(ssaResult2.ssa)
          /\ optimizedSSA2' = formatSSA(optimizeSSA(ssaResult2.ssa))
     ELSE UNCHANGED <<ssaForm2, optimizedSSA2>>
  /\ cfgData' = [null |-> FALSE] @@ generateCFG(ast1)
  /\ AnalyzeEncoded(IF mode = "verification"
                    THEN generateVerificationSMT(ssaResult1.ssa, unrollDepth)
                    ELSE generateEquivalenceSMT(ssaResult1.ssa, ssaResult2.ssa,
                                                unrollDepth))

\* analyzePrograms after both calls of parseProgram
AnalyzeParsed(p1, p2) ==
  IF p1.err \/ p2.err
  THEN /\ AnalyzeThrows(IF p1.err THEN p1.msg ELSE p2.msg)
       /\ UNCHANGED <<ssaForm1, ssaForm2, optimizedSSA1, optimizedSSA2,
                      cfgData, smtCode>>
  ELSE AnalyzeConverted(p1.ast, p2.ast, convertToSSA(p1.ast),
                        IF p2.ast # NullAst THEN convertToSSA(p2.ast) ELSE NullSSA)

\* analyzePrograms started by a button that is not disabled while loading
AnalyzeWhileLoading ==
  /\ ~effectPending
  /\ AnalyzeParsed(parseProgram(program1),
                   IF mode = "equivalence" THEN parseProgram(program2) ELSE NullParse)
  /\ UNCHANGED <<mode, program1, program2, unrollDepth, effectPending>>
  /\ UNCHANGED fnVars

\* the Analyze button: analyzePrograms from its start to its first await
\* (or through its catch block)
Analyze ==
  /\ ~loading
  /\ ~effectPending
  /\ AnalyzeParsed(parseProgram(program1),
                   IF mode = "equivalence" THEN parseProgram(program2) ELSE NullParse)
  /\ UNCHANGED <<mode, program1, program2, unrollDepth, effectPending>>
  /\ UNCHANGED fnVars

\* the rest of analyzePrograms once the solver call of pending[i] returned
SolverReturns(i, answer) ==
  /\ i \in 1..Len(pending)
  /\ \E result \in (IF pending[i].mode = "verification"
                    THEN checkVerification(pending[i].smt, answer)
                    ELSE checkEquivalence(pending[i].smt, answer)) :
       /\ verificationResult' = result.verdict
       /\ counterexamples' = result.counterexamples
       /\ validExamples' = result.validExamples
  /\ loading' = FALSE
  /\ pending' = [k \in 1..(Len(pending) - 1) |->
                   IF k < i THEN pending[k] ELSE pending[k + 1]]
  /\ UNCHANGED <<mode, program1, program2, unrollDepth, ssaForm1, ssaForm2,
                 smtCode, optimizedSSA1, optimizedSSA2, cfgData, effectPending>>
  /\ UNCHANGED fnVars

\* the solver call of pending[i] threw: the catch block of checkVerification
\* or checkEquivalence, then the rest of analyzePrograms
SolverFails(i) ==
  /\ i \in 1..Len(pending)
  /\ verificationResult' = solverFailure("solver error").verdict
  /\ counterexamples' = solverFailure("solver error").counterexamples
  /\ validExamples' = solverFailure("solver error").validExamples
  /\ loading' = FALSE
  /\ pending' = [k \in 1..(Len(pending) - 1) |->
                   IF k < i THEN pending[k] ELSE pending[k + 1]]
  /\ UNCHANGED <<mode, program1, program2, unrollDepth, ssaForm1, ssaForm2,
                 smtCode, optimizedSSA1, optimizedSSA2, cfgData, effectPending>>
  /\ UNCHANGED fnVars

EditFrame ==
  /\ effectPending' = TRUE
  /\ UNCHANGED <<ssaForm1, ssaForm2, smtCode, verificationResult,
                 counterexamples, validExamples, optimizedSSA1, optimizedSSA2,
                 loading, cfgData, pending>>
  /\ UNCHANGED fnVars

\* onChange of the Program 1 textarea
SetProgram1(p) ==
  /\ ~effectPending
  /\ p # program1
  /\ program1' = p
  /\ UNCHANGED <<mode, program2, unrollDepth>>
  /\ EditFrame

\* onChange of the Program 2 textarea, rendered in equivalence mode only
SetProgram2(p) ==
  /\ ~effectPending
  /\ mode = "equivalence"
  /\ p # program2
  /\ program2' = p
  /\ UNCHANGED <<mode, program1, unrollDepth>>
  /\ EditFrame

\* onCheckedChange of the mode switch
SetMode ==
  /\ ~effectPending
  /\ mode' = IF mode = "verification" THEN "equivalence" ELSE "verification"
  /\ UNCHANGED <<program1, program2, unrollDepth>>
  /\ EditFrame

\* onChange of the unroll depth field
SetUnrollDepth(d) ==
  /\ ~effectPending
  /\ d # unrollDepth
  /\ unrollDepth' = d
  /\ UNCHANGED <<mode, program1, program2>>
  /\ EditFrame

\* useEffect on [program1, program2, mode, unrollDepth]
ResetEffect ==
  /\ effectPending
  /\ ssaForm1' = << >>
  /\ ssaForm2' = << >>
  /\ smtCode' = << >>
  /\ verificationResult' = "null"
  /\ counterexamples' = << >>
  /\ validExamples' = << >>
  /\ optimizedSSA1' = << >>
  /\ optimizedSSA2' = << >>
  /\ cfgData' = NullCfg
  /\ effectPending' = FALSE
  /\ UNCHANGED <<mode, program1, program2, unrollDepth, loading, pending>>
  /\ UNCHANGED fnVars

Next ==
  \/ Analyze
  \/ \E i \in 1..Len(pending) : \E answer \in {"sat", "unsat"} : SolverReturns(i, answer)
  \/ \E i \in 1..Len(pending) : SolverFails(i)
  \/ \E p \in Programs : SetProgram1(p)
  \/ \E p \in Programs : SetProgram2(p)
  \/ SetMode
  \/ \E d \in UnrollDepths : SetUnrollDepth(d)
  \/ ResetEffect

Spec == Init /\ [][Next]_vars

(***************************************************************************)
(* The builder and the renamer applied to one AST                          *)
(***************************************************************************)
\* the longest block of an if or a loop
MaxBlockLen == 1

\* the longest statement list of a program
MaxProgramLen == 2

\* the optimizer runs on its own output up to this many passes in all
MaxPasses == 2

Variable(name) == [type |-> "Variable", name |-> name]
Literal(n) == [type |-> "Literal", value |-> Num(n)]
BinaryOperation(operator, left, right) ==
  [type |-> "BinaryOperation", operator |-> operator, left |-> left, right |-> right]
UnaryOperation(operator, operand) ==
  [type |-> "UnaryOperation", operator |-> operator, operand |-> operand]
ArrayAccess(array, index) == [type |-> "ArrayAccess", array |-> array, index |-> index]
Assignment(left, right) == [type |-> "Assignment", left |-> left, right |-> right]

SeqsUpTo(S, n) == UNION { [1..k -> S] : k \in 0..n }

\* x := 1;  x := x + 1;  y := x;  y := -x;  y := a[x];  y := x / 0;  y := x % 0;
AstAssignments ==
  { Assignment("x", Literal(1)),
    Assignment("x", BinaryOperation("+", Variable("x"), Literal(1))),
    Assignment("y", Variable("x")),
    Assignment("y", UnaryOperation("-", Variable("x"))),
    Assignment("y", ArrayAccess("a", Variable("x"))),
    Assignment("y", BinaryOperation("/", Variable("x"), Literal(0))),
    Assignment("y", BinaryOperation("%", Variable("x"), Literal(0))) }

AstCondition == BinaryOperation("<", Variable("x"), Literal(5))

\* the blocks of an if or a loop: assignments, `if (x < 5) { x := 1; }` and
\* `while (x < 5) { y := x; }`
AstBlocks ==
  SeqsUpTo(AstAssignments
           \cup { [type |-> "IfStatement", condition |-> AstCondition,
                   ifBody |-> <<Assignment("x", Literal(1))>>, elseBody |-> << >>],
                  [type |-> "WhileLoop", condition |-> AstCondition,
                   body |-> <<Assignment("y", Variable("x"))>>] },
           MaxBlockLen)

AstStatements ==
  AstAssignments
  \cup { [type |-> "IfStatement", condition |-> AstCondition,
          ifBody |-> b, elseBody |-> c] : b \in AstBlocks, c \in AstBlocks }
  \cup { [type |-> "WhileLoop", condition |-> c, body |-> b] :
           c \in {AstCondition, BinaryOperation("<", Literal(1), Literal(5))},
           b \in AstBlocks }
  \cup { [type |-> "ForLoop", init |-> Assignment("x", Literal(1)),
          condition |-> AstCondition,
          update |-> Assignment("x", BinaryOperation("+", Variable("x"), Literal(1))),
          body |-> b] : b \in AstBlocks }
  \cup { [type |-> "Assert",
          condition |-> BinaryOperation(">", Variable("x"), Literal(0))] }

\* the statement lists up to MaxProgramLen, and what the parser makes of
\* `x := 3; y := x + 1; assert(y > 0);`
AstPrograms ==
  { [type |-> "Program", body |-> b] :
      b \in SeqsUpTo(AstStatements, MaxProgramLen) \ {<< >>} }
  \cup { parseProgram(DefaultProgram2).ast }

InitSSA ==
  /\ mode = "verification"
  /\ program1 = DefaultProgram1
  /\ program2 = DefaultProgram2
  /\ unrollDepth = DefaultUnrollDepth
  /\ ssaForm1 = << >>
  /\ ssaForm2 = << >>
  /\ smtCode = << >>
  /\ verificationResult = "null"
  /\ counterexamples = << >>
  /\ validExamples = << >>
  /\ optimizedSSA1 = << >>
  /\ optimizedSSA2 = << >>
  /\ loading = FALSE
  /\ cfgData = NullCfg
  /\ effectPending = FALSE
  /\ pending = << >>
  /\ fnAst \in AstPrograms
  /\ fnStage = "idle"
  /\ fnResult = NullSSA
  /\ fnRenamed = << >>
  /\ fnSmt = NullSmt
  /\ fnPasses = << >>
  /\ fnCfg = NullCfg

\* convertToSSA(ast)
Convert ==
  /\ fnStage = "idle"
  /\ fnResult' = convertToSSA(fnAst)
  /\ fnStage' = "converted"
  /\ UNCHANGED <<fnAst, fnRenamed, fnSmt, fnPasses, fnCfg>>
  /\ UNCHANGED sessionVars

\* renameVariables(ssa, "_p2") on the builder's instructions
Rename ==
  /\ fnStage = "converted"
  /\ fnRenamed' = renameVariables(fnResult.ssa, "_p2")
  /\ fnStage' = "renamed"
  /\ UNCHANGED <<fnAst, fnResult, fnSmt, fnPasses, fnCfg>>
  /\ UNCHANGED sessionVars

\* generateVerificationSMT(ssa, unrollDepth) on the builder's instructions
Encode ==
  /\ fnStage = "converted"
  /\ fnSmt' = generateVerificationSMT(fnResult.ssa, unrollDepth)
  /\ fnStage' = "encoded"
  /\ UNCHANGED <<fnAst, fnResult, fnRenamed, fnPasses, fnCfg>>
  /\ UNCHANGED sessionVars

\* optimizeSSA on the builder's instructions, then on its own output
Optimize ==
  /\ fnStage \in {"converted", "optimized"}
  /\ Len(fnPasses) < MaxPasses
  /\ fnPasses' = Append(fnPasses,
                        optimizeSSA(IF fnPasses = << >> THEN fnResult.ssa
                                    ELSE fnPasses[Len(fnPasses)]))
  /\ fnStage' = "optimized"
  /\ UNCHANGED <<fnAst, fnResult, fnRenamed, fnSmt, fnCfg>>
  /\ UNCHANGED sessionVars

\* generateCFG(ast)
BuildCFG ==
  /\ fnStage = "idle"
  /\ fnCfg' = [null |-> FALSE] @@ generateCFG(fnAst)
  /\ fnStage' = "graph"
  /\ UNCHANGED <<fnAst, fnResult, fnRenamed, fnSmt, fnPasses>>
  /\ UNCHANGED sessionVars

NextSSA ==
  \/ Convert
  \/ Rename
  \/ Encode
  \/ Optimize
  \/ BuildCFG

SpecSSA == InitSSA /\ [][NextSSA]_vars

(***************************************************************************)
(* Vocabulary of the properties                                            *)
(***************************************************************************)
\* the largest integer version the properties tell apart
MaxVersion == 3

Versions == { Num(n) : n \in 0..MaxVersion } \cup {NaN, LoopStr, Undefined}

\* the source names of the ASTs above
AstNames == {"x", "y", "a"}

\* the source name and the version of an SSA name `${name}_${version}`
NameIn(names, ssaName, suffix) ==
  IF \E n \in names : \E v \in Versions : ssaName = SSAName(n, v) \o suffix
  THEN CHOOSE n \in names : \E v \in Versions : ssaName = SSAName(n, v) \o suffix
  ELSE ""

VersionIn(names, ssaName) ==
  IF \E n \in names : \E v \in Versions : ssaName = SSAName(n, v)
  THEN CHOOSE v \in Versions : \E n \in names : ssaName = SSAName(n, v)
  ELSE Undefined

\* the names a statement list assigns, at any depth
RECURSIVE AssignedIn(_)
AssignedIn(stmts) ==
  IF stmts = << >> THEN {}
  ELSE LET node == Head(stmts)
           here == CASE node.type = "Assignment" -> {node.left}
                     [] node.type = "IfStatement" ->
                          AssignedIn(node.ifBody) \cup AssignedIn(node.elseBody)
                     [] node.type = "WhileLoop" -> AssignedIn(node.body)
                     [] node.type = "ForLoop" ->
                          {node.init.left, node.update.left} \cup AssignedIn(node.body)
                     [] OTHER -> {}
       IN here \cup AssignedIn(Tail(stmts))

\* the SSA name an instruction writes ("" for an Assert)
Target(node) ==
  CASE node.type = "Assignment" -> node.left
    [] node.type = "Phi" -> node.result
    [] OTHER -> ""

\* the SSA names an expression mentions
RECURSIVE ExprNames(_)
ExprNames(expr) ==
  CASE expr.type = "Variable" -> {expr.name}
    [] expr.type = "BinaryOperation" -> ExprNames(expr.left) \cup ExprNames(expr.right)
    [] expr.type = "UnaryOperation" -> ExprNames(expr.operand)
    [] expr.type = "ArrayAccess" -> {expr.array} \cup ExprNames(expr.index)
    [] OTHER -> {}

\* the SSA names an instruction reads
Reads(node) ==
  CASE node.type = "Assignment" -> ExprNames(node.right)
    [] node.type = "Assert" -> ExprNames(node.condition)
    [] node.type = "Phi" ->
         { node.operands[k].str : k \in 1..Len(node.operands) }
         \cup ExprNames(node.condition)

Range(seq) == { seq[i] : i \in 1..Len(seq) }

ScriptLines(smt) == Range(smt)

RECURSIVE JoinTexts(_)
JoinTexts(texts) ==
  IF texts = << >> THEN ""
  ELSE Head(texts) \o (IF Len(texts) > 1 THEN " " ELSE "") \o JoinTexts(Tail(texts))

\* the ways of writing "not all of these formulas hold" as one assert line
NegatedGoals(texts) ==
  { AssertLine("(not (and " \o JoinTexts(texts) \o "))"),
    AssertLine("(or " \o JoinTexts([i \in 1..Len(texts) |->
                                      "(not " \o texts[i] \o ")"]) \o ")") }
  \cup (IF Len(texts) = 1 THEN {AssertLine("(not " \o texts[1] \o ")")} ELSE {})

\* the assert conditions of an instruction list, as script formulas
AssertConditions(ssa) ==
  LET hits == SelectSeq(ssa, LAMBDA node : node.type = "Assert")
  IN [i \in 1..Len(hits) |-> smtExpression(hits[i].condition, << >>).text]

\* the catch block of analyzePrograms showed `msg`
ErrorShown(msg) ==
  /\ verificationResult' = "false"
  /\ counterexamples' = <<ErrorExample(msg)>>
  /\ ~loading'

\* the messages parseProgram throws for the lines of a program text
SyntaxErrors(programText) ==
  { "Invalid " \o kind \o " statement: " \o JoinToks(Trim(programText[i])) :
      kind \in {"if", "while", "for", "assert"}, i \in 1..Len(programText) }

\* the header shapes: if (<cond>) {   while (<cond>) {
\* for (<init>;<cond>;<update>) {   assert(<cond>);
ShapeOf(keyword) ==
  CASE keyword = "if" ->
         <<Lit("if"), Ws, Lit("("), AnyCap, Lit(")"), Ws, Lit("{"), Eoi>>
    [] keyword = "while" ->
         <<Lit("while"), Ws, Lit("("), AnyCap, Lit(")"), Ws, Lit("{"), Eoi>>
    [] keyword = "for" ->
         <<Lit("for"), Ws, Lit("("), AnyCap, Lit(";"), AnyCap, Lit(";"), AnyCap,
           Lit(")"), Ws, Lit("{"), Eoi>>
    [] keyword = "assert" ->
         <<Lit("assert"), Lit("("), AnyCap, Lit(")"), Lit(";"), Eoi>>

Keywords == {"if", "while", "for", "assert"}

IsHeader(line) == Trim(line) # << >> /\ Trim(line)[1] \in Keywords

\* every line that starts with a keyword has that keyword's shape
HeadersHaveShape(programText) ==
  \A i \in 1..Len(programText) :
    IsHeader(programText[i]) =>
      MatchAt(ShapeOf(Trim(programText[i])[1]), 1, Trim(programText[i]), 1, << >>).ok

RECURSIVE CountTok(_, _)
CountTok(ts, tok) ==
  IF ts = << >> THEN 0
  ELSE (IF Head(ts) = tok THEN 1 ELSE 0) + CountTok(Tail(ts), tok)

\* the brace depth after the last line
RECURSIVE FinalDepth(_)
FinalDepth(programText) ==
  IF programText = << >> THEN 0
  ELSE CountTok(Head(programText), "{") - CountTok(Head(programText), "}")
       + FinalDepth(Tail(programText))

\* the If, While, For and Assert nodes of a statement list, at any depth
RECURSIVE ControlNodes(_)
ControlNodes(stmts) ==
  IF stmts = << >> THEN 0
  ELSE LET node == Head(stmts)
           here == CASE node.type = "IfStatement" ->
                          1 + ControlNodes(node.ifBody) + ControlNodes(node.elseBody)
                     [] node.type \in {"WhileLoop", "ForLoop"} ->
                          1 + ControlNodes(node.body)
                     [] node.type = "Assert" -> 1
                     [] OTHER -> 0
       IN here + ControlNodes(Tail(stmts))

HeaderCount(programText) ==
  Cardinality({ i \in 1..Len(programText) : IsHeader(programText[i]) })

(***************************************************************************)
(* Properties of the analysis session (Spec)                               *)
(***************************************************************************)
\* the instructions of a program text that parses
Instructions(programText) == convertToSSA(parseProgram(programText).ast).ssa

\* the step is a run of analyzePrograms that reached its solver call
ReachesSolver == ~loading /\ loading' /\ Analyze

\* the script handed to the solver by the step
HandedOver == pending'[Len(pending')].smt

\* C1: in verification mode the script of a program with an assert holds the
\* definitional equalities and the negation of the conjunction of the assert
\* conditions, and no assert condition as a positive assertion; a "sat"
\* answer is reported as verified = false.
C1_AssertsEnterNegated ==
  [][ /\ (ReachesSolver /\ mode = "verification") =>
           LET ssa == Instructions(program1)
               conds == AssertConditions(ssa)
           IN conds # << >> =>
                /\ \A i \in 1..Len(ssa) :
                     ssa[i].type = "Assignment" =>
                       AssertLine("(= " \o ssa[i].left \o " "
                                  \o smtExpression(ssa[i].right, << >>).text \o ")")
                         \in ScriptLines(HandedOver)
                /\ NegatedGoals(conds) \cap ScriptLines(HandedOver) # {}
                /\ \A i \in 1..Len(conds) :
                     AssertLine(conds[i]) \notin ScriptLines(HandedOver)
      /\ (loading /\ pending # << >> /\ pending[1].mode = "verification"
          /\ SolverReturns(1, "sat")) => verificationResult' = "false"
    ]_vars

\* the output equalities of the two instruction lists, paired by position
OutputEqualities(outputs1, outputs2) ==
  [i \in 1..Len(outputs1) |-> "(= " \o outputs1[i] \o " " \o outputs2[i] \o ")"]

\* the pending solver call was made for the inputs now on screen
PendingIsCurrent == loading /\ ~effectPending /\ ssaForm1 # << >>

\* C2: in equivalence mode the script asserts that the equality of the paired
\* outputs is violated, and no output equality as a positive assertion; the
\* two default programs are reported equivalent.
C2_EqualitiesEnterNegated ==
  [][ /\ (ReachesSolver /\ mode = "equivalence") =>
           LET outputs1 == findOutputVariables(Instructions(program1))
               outputs2 == findOutputVariables(
                             renameVariables(Instructions(program2), "_p2"))
               eqs == OutputEqualities(outputs1, outputs2)
           IN (Len(outputs1) = Len(outputs2) /\ outputs1 # << >>) =>
                /\ NegatedGoals(eqs) \cap ScriptLines(HandedOver) # {}
                /\ \A i \in 1..Len(eqs) :
                     AssertLine(eqs[i]) \notin ScriptLines(HandedOver)
      /\ (/\ PendingIsCurrent
          /\ mode = "equivalence"
          /\ {program1, program2} = {DefaultProgram1, DefaultProgram2}
          /\ \E answer \in {"sat", "unsat"} : SolverReturns(1, answer))
         => verificationResult' = "true"
    ]_vars

\* C6: parseProgram throws a syntax error exactly when a header lacks its
\* shape or the brace depth does not return to zero; a text whose headers
\* have their shapes and whose braces balance parses to an AST with one
\* If/While/For/Assert node per header.
C6_SyntaxErrorIffMalformed ==
  [][ (~loading /\ ~effectPending /\ mode = "verification" /\ Analyze) =>
        LET p == parseProgram(program1)
            wellFormed == HeadersHaveShape(program1) /\ FinalDepth(program1) = 0
        IN /\ wellFormed =>
                /\ ~p.err
                /\ ControlNodes(p.ast.body) = HeaderCount(program1)
           /\ (~wellFormed) =>
                \E msg \in SyntaxErrors(program1) : p.err /\ ErrorShown(msg)
    ]_vars

\* C7: the run on `if (x < 5 { y := 1; }` shows the syntax error of that line
\* and leaves the SSA and optimized SSA outputs empty.
C7_MalformedIfRaises ==
  [][ (~loading /\ ~effectPending /\ program1 = MalformedIfLine /\ Analyze) =>
        /\ ErrorShown("Invalid if statement: " \o JoinToks(MalformedIfLine[1]))
        /\ ssaForm1' = << >>
        /\ optimizedSSA1' = << >>
    ]_vars

\* both texts parse and their output-variable counts differ
OutputCountsDiffer ==
  /\ ~parseProgram(program1).err
  /\ ~parseProgram(program2).err
  /\ Len(findOutputVariables(Instructions(program1)))
       # Len(findOutputVariables(Instructions(program2)))

\* C8: in equivalence mode a run on programs with different output counts
\* ends "not equivalent" at once, without a solver call.
C8_CountMismatchShortCircuits ==
  [][ (/\ ~loading
       /\ ~effectPending
       /\ mode = "equivalence"
       /\ Analyze
       /\ OutputCountsDiffer) =>
        /\ verificationResult' = "false"
        /\ ~loading'
        /\ pending' = pending
    ]_vars

\* the output-equality lines of a script with n of them: the lines before
\* (check-sat) and (get-model)
EqualityLines(smt, n) == { smt[i] : i \in (Len(smt) - 1 - n)..(Len(smt) - 2) }

\* C9: each program has one output per assigned source name, and every
\* output-equality line relates outputs of the same source name.
C9_OutputsPairedByName ==
  [][ (ReachesSolver /\ mode = "equivalence") =>
        LET names1 == AssignedIn(parseProgram(program1).ast.body)
            names2 == AssignedIn(parseProgram(program2).ast.body)
            outputs1 == findOutputVariables(Instructions(program1))
            outputs2 == findOutputVariables(
                          renameVariables(Instructions(program2), "_p2"))
            sameName == { <<a, b>> \in Range(outputs1) \X Range(outputs2) :
                            NameIn(names1, a, "") = NameIn(names2, b, "_p2") }
        IN /\ Len(outputs1) = Cardinality(names1)
           /\ Len(outputs2) = Cardinality(names2)
           /\ Len(outputs1) = Len(outputs2) =>
                \A line \in EqualityLines(HandedOver, Len(outputs1)) :
                  \E pair \in sameName :
                    line \in { AssertLine("(= " \o pair[1] \o " " \o pair[2] \o ")") }
                             \cup NegatedGoals(<<"(= " \o pair[1] \o " " \o pair[2] \o ")">>)
    ]_vars

(***************************************************************************)
(* Properties of the builder and the renamer (SpecSSA)                     *)
(***************************************************************************)
\* the positions of the instructions that write a name
Writes(ssa) == { i \in 1..Len(ssa) : ssa[i].type \in {"Assignment", "Phi"} }

\* C3: the successive writes of one source name get strictly increasing
\* integer versions from 0 on, no SSA name is written twice, and no
\* assignment writes an SSA name that its right-hand side reads.
C3_VersionsIncrease ==
  fnStage \notin {"idle", "graph"} =>
    LET ssa == fnResult.ssa
        name(i) == NameIn(AstNames, Target(ssa[i]), "")
        version(i) == VersionIn(AstNames, Target(ssa[i]))
    IN /\ \A i \in Writes(ssa) :
            /\ version(i).k = "num"
            /\ (\A j \in Writes(ssa) : j < i => name(j) # name(i)) => version(i) = Num(0)
       /\ \A i, j \in Writes(ssa) :
            (i < j /\ name(i) = name(j)) =>
              /\ version(i).n < version(j).n
              /\ Target(ssa[i]) # Target(ssa[j])
       /\ \A i \in Writes(ssa) :
            ssa[i].type = "Assignment" => ssa[i].left \notin ExprNames(ssa[i].right)

\* C4: every SSA name an instruction reads is written by an earlier
\* instruction, or is version 0 of a source name that no instruction writes.
C4_ReadsAreProduced ==
  fnStage \notin {"idle", "graph"} =>
    LET ssa == fnResult.ssa
    IN \A i \in 1..Len(ssa) : \A read \in Reads(ssa[i]) :
         \/ \E j \in Writes(ssa) : j < i /\ Target(ssa[j]) = read
         \/ /\ VersionIn(AstNames, read) = Num(0)
            /\ \A j \in Writes(ssa) :
                 NameIn(AstNames, Target(ssa[j]), "") # NameIn(AstNames, read, "")

\* the phis of a source name
PhisOf(ssa, v) ==
  { i \in 1..Len(ssa) : ssa[i].type = "Phi" /\ NameIn(AstNames, ssa[i].result, "") = v }

\* C5: after `v := e; if (c) {...} else {...}` with assignments in the two
\* bodies there is exactly one phi for v, guarded by c with two operands, when
\* only the then body reassigns v, and no phi for v when neither body assigns
\* it.
C5_PhiWhenBranchesDiffer ==
  fnStage \notin {"idle", "graph"} =>
    LET body == fnAst.body
        ssa == fnResult.ssa
    IN (/\ Len(body) = 2
        /\ body[1].type = "Assignment"
        /\ body[2].type = "IfStatement"
        /\ \A s \in Range(body[2].ifBody) \cup Range(body[2].elseBody) :
              s.type = "Assignment") =>
         LET v == body[1].left
         IN /\ (v \in AssignedIn(body[2].ifBody) /\ v \notin AssignedIn(body[2].elseBody))
                 => /\ Cardinality(PhisOf(ssa, v)) = 1
                    /\ \A i \in PhisOf(ssa, v) :
                         Len(ssa[i].operands) = 2 /\ ssa[i].condition # UndefinedExpr
            /\ (v \notin AssignedIn(body[2].ifBody) /\ v \notin AssignedIn(body[2].elseBody))
                 => PhisOf(ssa, v) = {}

\* every name-bearing field suffixed
RECURSIVE SuffixedExpr(_, _)
SuffixedExpr(expr, suffix) ==
  CASE expr.type = "Variable" -> [expr EXCEPT !.name = @ \o suffix]
    [] expr.type = "BinaryOperation" ->
         [expr EXCEPT !.left = SuffixedExpr(@, suffix),
                      !.right = SuffixedExpr(@, suffix)]
    [] expr.type = "UnaryOperation" ->
         [expr EXCEPT !.operand = SuffixedExpr(@, suffix)]
    [] expr.type = "ArrayAccess" ->
         [expr EXCEPT !.array = @ \o suffix, !.index = SuffixedExpr(@, suffix)]
    [] OTHER -> expr

Suffixed(node, suffix) ==
  CASE node.type = "Assignment" ->
         [node EXCEPT !.left = @ \o suffix, !.right = SuffixedExpr(@, suffix)]
    [] node.type = "Assert" ->
         [node EXCEPT !.condition = SuffixedExpr(@, suffix)]
    [] node.type = "Phi" ->
         [node EXCEPT !.result = @ \o suffix,
                      !.operands = [k \in 1..Len(@) |-> Str(@[k].str \o suffix)],
                      !.condition = SuffixedExpr(@, suffix)]

\* the SSA names of an instruction list; a renamed operand that is no
\* string any more counts with the characters it holds
NamesOf(ssa) ==
  UNION { ({Target(ssa[i])} \ {""})
          \cup (IF ssa[i].type = "Phi"
                THEN { IF "str" \in DOMAIN ssa[i].operands[k]
                       THEN ssa[i].operands[k].str ELSE ssa[i].operands[k].chars :
                         k \in 1..Len(ssa[i].operands) }
                     \cup ExprNames(ssa[i].condition)
                ELSE Reads(ssa[i])) : i \in 1..Len(ssa) }

\* C10: renameVariables suffixes every SSA name of the stream (targets, phi
\* results, phi operands, names below unary operators and array accesses),
\* so the renamed stream shares no name with the stream it came from.
C10_RenameTouchesEveryName ==
  fnStage = "renamed" =>
    /\ fnRenamed = [i \in 1..Len(fnResult.ssa) |-> Suffixed(fnResult.ssa[i], "_p2")]
    /\ NamesOf(fnRenamed) \cap NamesOf(fnResult.ssa) = {}

(***************************************************************************)
(* Properties of the emitted script (Spec)                                 *)
(***************************************************************************)
\* the SSA names an instruction list writes or reads
UsedNames(ssa) ==
  UNION { ({Target(ssa[i])} \ {""}) \cup Reads(ssa[i]) : i \in 1..Len(ssa) }

\* the positions of the declare-const lines of `name`
DeclarationsOf(smt, name) ==
  { i \in 1..Len(smt) : smt[i].kind = "declare-const" /\ smt[i].name = name }

\* the instruction lists the step encodes
Encoded ==
  UsedNames(Instructions(program1))
  \cup (IF mode = "equivalence"
        THEN UsedNames(renameVariables(Instructions(program2), "_p2")) ELSE {})

\* C11: every SSA name that the encoded instructions write or read has
\* exactly one declare-const line in the script handed to the solver, in
\* verification mode and, for the names of both programs, in equivalence mode.
C11_EveryNameDeclaredOnce ==
  [][ ReachesSolver =>
        \A name \in Encoded : Cardinality(DeclarationsOf(HandedOver, name)) = 1
    ]_vars

(***************************************************************************)
(* Properties of the encoder applied to one instruction list (SpecSSA)     *)
(***************************************************************************)
\* the ways of writing the guard of a phi in the script: the encoder's text
\* of its condition and, for a negation, "(not c)"
GuardTexts(condition) ==
  CASE condition = UndefinedExpr -> {}
    [] condition.type = "UnaryOperation" ->
         { smtExpression(condition, << >>).text,
           "(not " \o smtExpression(condition.operand, << >>).text \o ")" }
    [] OTHER -> { smtExpression(condition, << >>).text }

\* C12: every phi with two operands is encoded, and its line is
\* result = (ite guard operands[0] operands[1]) with the phi's own operand
\* names as the two branches.
C12_PhiBecomesConditional ==
  fnStage = "encoded" =>
    \A i \in 1..Len(fnResult.ssa) :
      LET node == fnResult.ssa[i]
      IN (node.type = "Phi" /\ Len(node.operands) = 2) =>
           /\ ~fnSmt.err
           /\ \E guard \in GuardTexts(node.condition) :
                AssertLine("(= " \o node.result \o " (ite " \o guard \o " "
                           \o node.operands[1].str \o " "
                           \o node.operands[2].str \o "))")
                  \in ScriptLines(fnSmt.smt)

(***************************************************************************)
(* Properties of the optimizer applied to one instruction list (SpecSSA)   *)
(***************************************************************************)
\* the names counted as used in an expression: variables and accessed arrays
RECURSIVE UsesOf(_)
UsesOf(expr) ==
  CASE expr.type = "Variable" -> {expr.name}
    [] expr.type = "BinaryOperation" -> UsesOf(expr.left) \cup UsesOf(expr.right)
    [] expr.type = "ArrayAccess" -> {expr.array} \cup UsesOf(expr.index)
    [] OTHER -> {}

\* the names with a use count above zero: uses in assignment right-hand
\* sides, assert conditions and phi operand lists
Used(ssa) ==
  UNION { CASE ssa[i].type = "Assignment" -> UsesOf(ssa[i].right)
            [] ssa[i].type = "Assert" -> UsesOf(ssa[i].condition)
            [] ssa[i].type = "Phi" ->
                 { ssa[i].operands[k].str : k \in 1..Len(ssa[i].operands) }
          : i \in 1..Len(ssa) }

\* the instructions without the assignments to unused names
Kept(ssa) ==
  SelectSeq(ssa, LAMBDA node : ~(node.type = "Assignment" /\ node.left \notin Used(ssa)))

\* kind and target of each instruction, in order
Heads(ssa) == [i \in 1..Len(ssa) |-> <<ssa[i].type, Target(ssa[i])>>]

\* C13: the optimizer's output is the input, in order, without exactly the
\* assignments whose target is used nowhere (phis and asserts all stay); for
\* `x := 3; y := x + 1; assert(y > 0);` the assignment of y is folded to 4.
C13_DeadAssignmentsRemoved ==
  fnPasses # << >> =>
    /\ Heads(fnPasses[1]) = Heads(Kept(fnResult.ssa))
    /\ fnAst = parseProgram(DefaultProgram2).ast =>
         /\ Len(fnPasses[1]) = 3
         /\ fnPasses[1][2].type = "Assignment"
         /\ fnPasses[1][2].right = Literal(4)

\* a division or modulo whose right operand folds to the literal 0
DividesByZero(expr, ssa) ==
  /\ expr.type = "BinaryOperation"
  /\ expr.operator \in {"/", "%"}
  /\ propagateConstants(expr.right, findConstants(ssa, 1, << >>)) = Literal(0)

\* C14: a division or modulo by a right operand that folds to 0 is not
\* folded: the optimizer returns, and the instruction keeps the
\* BinaryOperation as its right-hand side.
C14_ZeroDivisorNotFolded ==
  fnPasses # << >> =>
    \A i \in 1..Len(fnResult.ssa) :
      (/\ fnResult.ssa[i].type = "Assignment"
       /\ DividesByZero(fnResult.ssa[i].right, fnResult.ssa)) =>
        /\ Len(fnPasses[1]) = Len(fnResult.ssa)
        /\ fnPasses[1][i].type = "Assignment"
        /\ fnPasses[1][i].right.type = "BinaryOperation"

\* the assignments of a literal in an instruction list
LiteralAssignments(ssa) ==
  { ssa[i] : i \in { k \in 1..Len(ssa) : /\ ssa[k].type = "Assignment"
                                         /\ ssa[k].right.type = "Literal" } }

\* the first pass exposed no constant that its input did not have
NoFurtherConstants ==
  LiteralAssignments(fnPasses[1]) \subseteq LiteralAssignments(fnResult.ssa)

\* C15: a second pass over the output of the first changes nothing whenever
\* the first pass produced no literal-valued assignment that its input did
\* not have, and `x := 3; y := x + 1; assert(y > 0);` is such an input, so
\* that its second pass changes nothing either.
C15_IdempotentOnNamedInput ==
  Len(fnPasses) = 2 =>
    /\ NoFurtherConstants => fnPasses[2] = fnPasses[1]
    /\ fnAst = parseProgram(DefaultProgram2).ast =>
         /\ NoFurtherConstants
         /\ fnPasses[2] = fnPasses[1]

(***************************************************************************)
(* Properties of the session's solver calls (Spec)                         *)
(***************************************************************************)
\* C16: at most one analysis is suspended at its solver call, and loading is
\* true exactly while one is; hence no analysis starts while loading is true.
C16_OneAnalysisInFlight ==
  /\ Len(pending) <= 1
  /\ loading <=> pending # << >>

\* an analysis is in flight and the inputs were edited meanwhile
C16_Witness ==
  /\ loading
  /\ Len(pending) = 1
  /\ effectPending

\* C17: when the solver call fails, the verdict shown is not the "false"
\* that a violated property gets ("Verification failed", "Programs are not
\* equivalent").
C17_FailureIsInconclusive ==
  [][ (\E i \in 1..Len(pending) : SolverFails(i)) => verificationResult' # "false"
    ]_vars

\* C18: the script handed to the solver starts with the logic declaration,
\* ends with (check-sat) and (get-model), and between them has its
\* declare-const lines before its assert lines, so that no assert line
\* comes before a declaration.
C18_ScriptIsOrdered ==
  [][ ReachesSolver =>
        LET smt == HandedOver
        IN /\ Len(smt) >= 3
           /\ smt[1] = SetLogicLine
           /\ smt[Len(smt) - 1] = CheckSatLine
           /\ smt[Len(smt)] = GetModelLine
           /\ \A i \in 2..(Len(smt) - 2) : smt[i].kind \in {"declare-const", "assert"}
           /\ \A i, j \in 1..Len(smt) :
                (smt[i].kind = "assert" /\ smt[j].kind = "declare-const") => j < i
    ]_vars

(***************************************************************************)
(* Properties of the graph builder applied to one AST (SpecSSA)            *)
(***************************************************************************)
CfgIds(g) == { g.nodes[i].id : i \in 1..Len(g.nodes) }

LabelOf(g, id) == g.nodes[CHOOSE i \in 1..Len(g.nodes) : g.nodes[i].id = id].label

\* the back edge of a loop: from a "Loop Body" node to the node made just
\* before it
BackEdge(g, e) ==
  /\ e.label = ""
  /\ e.to = e.from - 1
  /\ e.from \in CfgIds(g)
  /\ LabelOf(g, e.from) = "Loop Body"

\* the positions of the other edges: from a node to a node made for
\* something nested in it
TreeEdges(g) == { k \in 1..Len(g.edges) : ~BackEdge(g, g.edges[k]) }

Children(g, p) ==
  { g.edges[k].to : k \in { t \in TreeEdges(g) : g.edges[t].from = p } }

\* the nodes made for what is nested in node p, at any depth
RECURSIVE Nested(_, _)
Nested(g, p) ==
  UNION { {c} \cup Nested(g, c) : c \in { x \in Children(g, p) : x > p } }

\* C19: node ids are 0..n-1 in the order of creation with the Program node
\* first; every node but the Program node hangs on exactly one node, which
\* has a smaller id; the nodes nested in a node are numbered consecutively
\* right after it (pre-order); every edge joins ids of the node list.
C19_IdsArePreOrder ==
  fnStage = "graph" =>
    LET g == fnCfg
    IN /\ Len(g.nodes) >= 1
       /\ \A i \in 1..Len(g.nodes) : g.nodes[i].id = i - 1
       /\ g.nodes[1].label = "Program Start"
       /\ \A k \in 1..Len(g.edges) :
            g.edges[k].from \in CfgIds(g) /\ g.edges[k].to \in CfgIds(g)
       /\ \A k \in TreeEdges(g) : g.edges[k].from < g.edges[k].to
       /\ \A c \in CfgIds(g) \ {0} :
            Cardinality({ k \in TreeEdges(g) : g.edges[k].to = c }) = 1
       /\ \A p \in CfgIds(g) :
            Nested(g, p) = (p + 1)..(p + Cardinality(Nested(g, p)))

\* the graph of a program with an if and a loop, both with statements inside
C19_Witness ==
  /\ fnStage = "graph"
  /\ \E t, b \in CfgIds(fnCfg) :
       /\ LabelOf(fnCfg, t) = "Then"
       /\ LabelOf(fnCfg, b) = "Loop Body"
       /\ Children(fnCfg, t) # {}
       /\ Children(fnCfg, b) # {}

\* the bodies of the While statements of a statement list, at any depth, in
\* the order of the text
RECURSIVE WhileBodies(_)
WhileBodies(stmts) ==
  IF stmts = << >> THEN << >>
  ELSE LET node == Head(stmts)
           here == CASE node.type = "WhileLoop" ->
                          <<node.body>> \o WhileBodies(node.body)
                     [] node.type = "IfStatement" ->
                          WhileBodies(node.ifBody) \o WhileBodies(node.elseBody)
                     [] node.type = "ForLoop" -> WhileBodies(node.body)
                     [] OTHER -> << >>
       IN here \o WhileBodies(Tail(stmts))

\* the ids of the "Loop Body" nodes, in the order of the node list
LoopBodyIds(g) ==
  LET hits == SelectSeq(g.nodes, LAMBDA n : n.label = "Loop Body")
  IN [k \in 1..Len(hits) |-> hits[k].id]

\* the positions of the edges from a to b
EdgesBetween(g, a, b) ==
  { k \in 1..Len(g.edges) : g.edges[k].from = a /\ g.edges[k].to = b }

\* C20: every While statement of the AST has a decision node followed by a
\* "Loop Body" node, joined by exactly one edge decision -> body, labelled
\* "T", and one back edge body -> decision; no edge labelled "F" leaves the
\* decision node; the body node has one node below it per statement of the
\* loop body.
C20_WhileExpansion ==
  fnStage = "graph" =>
    LET g == fnCfg
        bodies == WhileBodies(fnAst.body)
        ids == LoopBodyIds(g)
    IN /\ Len(ids) = Len(bodies)
       /\ \A k \in 1..Len(ids) :
            LET b == ids[k]
                d == b - 1
            IN /\ Cardinality(EdgesBetween(g, d, b)) = 1
               /\ \A e \in EdgesBetween(g, d, b) : g.edges[e].label = "T"
               /\ Cardinality(EdgesBetween(g, b, d)) = 1
               /\ \A e \in 1..Len(g.edges) :
                    g.edges[e].from = d => g.edges[e].label # "F"
               /\ Cardinality(Children(g, b)) = Len(bodies[k])

(***************************************************************************)
(* Properties of the builder on loops and branches (SpecSSA)               *)
(***************************************************************************)
\* the positions of the exit phis: the phis guarded by a negation
ExitPhis(ssa) ==
  { i \in 1..Len(ssa) : /\ ssa[i].type = "Phi"
                         /\ ssa[i].condition.type = "UnaryOperation"
                         /\ ssa[i].condition.operator = "!" }

\* C21: for a program that ends with a while loop over assignments, after
\* assignments only, there is one exit phi for every name the loop body
\* assigns and none for any other name; an exit phi has two operands and a
\* result that differs from both.
C21_ExitPhisForChangedNames ==
  fnStage \notin {"idle", "graph"} =>
    LET body == fnAst.body
        ssa == fnResult.ssa
        loop == body[Len(body)]
    IN (/\ loop.type = "WhileLoop"
        /\ \A s \in Range(loop.body) : s.type = "Assignment"
        /\ \A i \in 1..(Len(body) - 1) : body[i].type = "Assignment") =>
         /\ \A i \in ExitPhis(ssa) :
              /\ NameIn(AstNames, ssa[i].result, "") \in AssignedIn(loop.body)
              /\ Len(ssa[i].operands) = 2
              /\ \A k \in 1..Len(ssa[i].operands) :
                   ssa[i].operands[k].str # ssa[i].result
         /\ \A v \in AssignedIn(loop.body) :
              Cardinality({ i \in ExitPhis(ssa) :
                            NameIn(AstNames, ssa[i].result, "") = v }) = 1

\* the builder state when the then body of `if (c) {...} else {...}` starts,
\* for a program that consists of this statement: the snapshot is its map
BeforeIf(node) ==
  [ssa |-> << >>, phi |-> << >>,
   variables |-> processExpression(node.condition, << >>).variables]

\* C22: for a program that consists of one if/else, the version map in force
\* when the else body starts is the snapshot taken before the branch, and
\* the instructions up to the end of the else body are those of the then
\* body followed by those the else body gives when started from the snapshot.
C22_ElseStartsFromSnapshot ==
  fnStage \notin {"idle", "graph"} =>
    LET node == fnAst.body[1]
    IN (Len(fnAst.body) = 1 /\ node.type = "IfStatement") =>
         LET afterIf == processBody(node.ifBody, 1, BeforeIf(node))
             fromSnapshot == processBody(node.elseBody, 1,
                               [afterIf EXCEPT !.variables = BeforeIf(node).variables])
         IN /\ AssignAll(afterIf.variables, BeforeIf(node).variables, 1)
                 = BeforeIf(node).variables
            /\ Len(fnResult.ssa) >= Len(fromSnapshot.ssa)
            /\ SubSeq(fnResult.ssa, 1, Len(fromSnapshot.ssa)) = fromSnapshot.ssa

\* a statement list with every for statement written as its init statement
\* followed by `while (cond) { body; update }`
RECURSIVE Desugared(_)
Desugared(stmts) ==
  IF stmts = << >> THEN << >>
  ELSE LET node == Head(stmts)
           here == CASE node.type = "ForLoop" ->
                          <<node.init,
                            [type |-> "WhileLoop", condition |-> node.condition,
                             body |-> Desugared(node.body) \o <<node.update>>]>>
                     [] node.type = "WhileLoop" ->
                          <<[node EXCEPT !.body = Desugared(@)]>>
                     [] node.type = "IfStatement" ->
                          <<[node EXCEPT !.ifBody = Desugared(@),
                                         !.elseBody = Desugared(@)]>>
                     [] OTHER -> <<node>>
       IN here \o Desugared(Tail(stmts))

\* C23: the instructions and the final version map of a program are those of
\* the program with every for statement replaced by its init statement and
\* the loop `while (cond) { body; update }`.
C23_ForIsInitThenWhile ==
  fnStage = "converted" =>
    fnResult = convertToSSA([fnAst EXCEPT !.body = Desugared(@)])

\* a converted program with a statement before a for loop that has a body
C23_Witness ==
  /\ fnStage = "converted"
  /\ Len(fnAst.body) = 2
  /\ fnAst.body[2].type = "ForLoop"
  /\ fnAst.body[2].body # << >>
  /\ fnResult.ssa # << >>

(***************************************************************************)
(* Properties of the parser on an if/else block (Spec)                     *)
(***************************************************************************)
\* C24: the run on the default program 1, `x := 3; if (x < 5) { y := x + 1; }
\* else { y := x - 1; } assert(y > 0);` with `} else {` on one line, parses
\* the if block with the statement of the then block, and only it, as then
\* body and the statement of the else block, and only it, as else body.
C24_BodiesSplitAtElse ==
  [][ (~loading /\ ~effectPending /\ program1 = DefaultProgram1 /\ Analyze) =>
        LET p == parseProgram(program1)
        IN /\ ~p.err
           /\ Len(p.ast.body) = 3
           /\ p.ast.body[2].type = "IfStatement"
           /\ p.ast.body[2].ifBody = parseProgram(<<DefaultProgram1[3]>>).ast.body
           /\ p.ast.body[2].elseBody = parseProgram(<<DefaultProgram1[5]>>).ast.body
    ]_vars

(***************************************************************************)
(* Properties of the builder's output as input of the encoder (SpecSSA)    *)
(***************************************************************************)
\* C25: every phi of the builder's output has two operands and a guard, and
\* the encoder applied to the builder's output ends without an exception.
C25_PhisAreEncodable ==
  /\ fnStage \notin {"idle", "graph"} =>
       \A i \in 1..Len(fnResult.ssa) :
         fnResult.ssa[i].type = "Phi" =>
           /\ Len(fnResult.ssa[i].operands) = 2
           /\ fnResult.ssa[i].condition # UndefinedExpr
  /\ fnStage = "encoded" => ~fnSmt.err

(***************************************************************************)
(* Properties of the results shown against the inputs shown (Spec)         *)
(***************************************************************************)
\* the script that an analysis of the given inputs hands to the solver, or
\* err when that analysis ends in its catch block before the solver call
ScriptFor(m, p1, p2, depth) ==
  LET parsed1 == parseProgram(p1)
      parsed2 == IF m = "equivalence" THEN parseProgram(p2) ELSE NullParse
  IN IF parsed1.err \/ parsed2.err THEN [NullSmt EXCEPT !.err = TRUE]
     ELSE IF m = "verification"
     THEN generateVerificationSMT(convertToSSA(parsed1.ast).ssa, depth)
     ELSE generateEquivalenceSMT(convertToSSA(parsed1.ast).ssa,
                                 convertToSSA(parsed2.ast).ssa, depth)

\* C26: when no reset is outstanding and a solver call completes, the
\* verdict and the examples it sets belong to the inputs shown: the mode of
\* the call is the current mode and its script is the script of the current
\* program texts and unroll depth.
C26_ResultsOfCurrentInputs ==
  [][ \A i \in 1..Len(pending) :
        (/\ ~effectPending
         /\ \/ SolverFails(i)
            \/ \E answer \in {"sat", "unsat"} : SolverReturns(i, answer)) =>
          /\ pending[i].mode = mode
          /\ ~ScriptFor(mode, program1, program2, unrollDepth).err
          /\ pending[i].smt = ScriptFor(mode, program1, program2, unrollDepth).smt
    ]_vars

====
